---------------------------- MODULE Spec2Model ----------------------------
(***************************************************************************)
(* Movement-and-space core of bbagher/wowclone: the static collision       *)
(* resolver (CollisionManager), the terrain height oracle (TerrainService),*)
(* the navigation grid service (PathfindingService) and the player body    *)
(* integrator (PlayerController + PhysicsSystem).                          *)
(*                                                                         *)
(* Numbers are fixed point.                                                *)
(*   - positions, radii and heights of the collision resolver: 1 unit is   *)
(*     1/2000 world unit (0.001 is 2, 0.1 is 200, 0.5 is 1000);            *)
(*   - squared distances: 1 unit is 1/4000000 (0.001 is 4000, 0.0001 400); *)
(*   - local half extents (extendSize) and volumes: 1 unit is 1/10 world   *)
(*     unit, a volume unit is 1/1000 cubic world unit;                     *)
(*   - the player body: 1 unit is 1/100 world unit;                        *)
(*   - terrain x: 1 unit is 1/4 world unit; time is in milliseconds;       *)
(*   - navigation grid coordinates: 1 unit is 1/2 world unit.              *)
(***************************************************************************)
EXTENDS Integers, Sequences, FiniteSets, TLC

VARIABLES
    \* CollisionManager
    collidableMeshes,   \* Set<AbstractMesh>
    customCollisions,   \* Map<AbstractMesh, CustomCollisionData>
    checkCollisions,    \* the meshes whose mesh.checkCollisions flag is set
    enabledMeshes,      \* the meshes for which mesh.isEnabled() is true
    visibleMeshes,      \* the meshes for which mesh.isVisible is true
    removed,            \* history: meshes unregistered and not registered since
    call,               \* the last CollisionManager call: arguments and result
    \* PlayerController
    playerMesh,         \* state.mesh: Null until the player is loaded
    meshPosition,       \* state.mesh.position
    velocity,           \* state.velocity
    isGrounded,         \* state.isGrounded
    rotationY,          \* state.mesh.rotation.y, in quarter turns
    cameraAlpha,        \* the camera's alpha, in quarter turns
    lastInput,          \* the last PlayerController step and its MovementInput
    airborne,           \* history: the height a body at rest was put at, and the
                        \* updates without jump or landing since
    \* TerrainService
    heightCache,        \* Map<string, {height, timestamp}>
    now,                \* Date.now()
    ground,             \* the mesh named 'ground': point -> <<height>>, or <<>> off it
    terrainCall,        \* the last TerrainService call: arguments, result, ray probes
    marked,             \* history: one earlier getGroundHeight call and the entry it used
    \* PathfindingService
    blocked,            \* the cells of the Pathfinder's grid that are blocked
    isInitialized,      \* PathfindingService.isInitialized
    navCall,            \* the last PathfindingService call
    \* CameraController (the realigning controller; angles in 1/10000 rad)
    camAlpha,           \* camera.alpha
    targetAlpha,        \* targetAlpha
    isRightMouseDown,   \* isRightMouseDown
    isLeftMouseDown,    \* isLeftMouseDown
    lockedTarget,       \* camera.lockedTarget: <<>> or <<rotation.y of the mesh>>
    cameraCall,         \* the last CameraController step and its arguments
    realign,            \* history: the idle updates in a row since the last other
                        \* step, whether that step ended a drag, and camera.alpha after it
    \* NPCManager, NPC, TargetingSystem and the Game's melee attack
    \* (positions on the x axis in 1/100 world unit, times in ms)
    npcs,               \* NPCManager.npcs: the managed NPCs, in array order
    npcData,            \* the fields of every NPC constructed so far
    pathfindingService, \* NPCManager.pathfindingService is set
    dateNow,            \* Date.now()
    currentTarget,      \* TargetingSystem.currentTarget: <<>> or <<NPC>>
    isAttacking,        \* WasmPlayerController.isAttacking
    npcCall,            \* the last NPC, NPCManager or Game step and its results
    attackLog,          \* history: per NPC, the times of its last two reported attacks
    wanderLog,          \* history: per NPC, when it last stopped following a wander path
    cycleLog            \* history: the list and the picks of the last cycleTarget calls

collVars == <<collidableMeshes, customCollisions, checkCollisions,
              enabledMeshes, visibleMeshes, removed, call>>

playerVars == <<playerMesh, meshPosition, velocity, isGrounded, rotationY,
                cameraAlpha, lastInput, airborne>>

terrainVars == <<heightCache, now, ground, terrainCall, marked>>

navVars == <<blocked, isInitialized, navCall>>

cameraVars == <<camAlpha, targetAlpha, isRightMouseDown, isLeftMouseDown,
                lockedTarget, cameraCall, realign>>

npcVars == <<npcs, npcData, pathfindingService, dateNow, currentTarget,
             isAttacking, npcCall, attackLog, wanderLog, cycleLog>>

vars == <<collVars, playerVars, terrainVars, navVars, cameraVars, npcVars>>

Null == "null"

Vec(x, y, z) == [x |-> x, y |-> y, z |-> z]

ZeroVec == Vec(0, 0, 0)

\* Vector3.DistanceSquared
DistanceSquared(a, b) ==
    (a.x - b.x) * (a.x - b.x) + (a.y - b.y) * (a.y - b.y) + (a.z - b.z) * (a.z - b.z)

Abs(n) == IF n < 0 THEN -n ELSE n

Max(a, b) == IF a > b THEN a ELSE b

(***************************************************************************)
(* The scene: meshes and the authored collision table.                     *)
(***************************************************************************)

\* The meshes of the scene that the resolver is asked about.
Meshes == {"rock", "crate", "hall", "container", "decal", "grass", "emptyNode"}

\* collision-config.json: asset name -> {radius, height, offsetY, enabled}
collisionConfig ==
    [a \in {"rock.gltf", "grass.gltf"} |->
        IF a = "rock.gltf"
        THEN [radius |-> 2000, height |-> 2000, offsetY |-> 0, enabled |-> TRUE]
        ELSE [radius |-> 600, height |-> 400, offsetY |-> 0, enabled |-> FALSE]]

\* getAssetName: the asset name in the mesh's metadata or a parent's name, or null
getAssetName(mesh) ==
    CASE mesh = "rock" -> "rock.gltf"
      [] mesh = "grass" -> "grass.gltf"
      [] OTHER -> Null

\* mesh.getBoundingInfo() is falsy for a node without geometry
HasBoundingInfo(mesh) == mesh # "emptyNode"

\* mesh.getAbsolutePosition()
AbsolutePosition(mesh) ==
    CASE mesh = "crate" -> Vec(3000, 400, 3150)
      [] OTHER -> Vec(0, 0, 0)

\* boundingInfo.boundingBox.extendSize: the local half extents (in 1/10 world unit);
\* every mesh of this scene is unscaled, so the world half extents are the same lengths
ExtendSize(mesh) ==
    CASE mesh \in {"rock", "crate"} -> Vec(10, 5, 10)
      [] mesh = "hall" -> Vec(40, 200, 220)
      [] mesh = "container" -> Vec(200, 1000, 1100)
      [] mesh = "decal" -> Vec(6, 0, 8)
      [] OTHER -> Vec(1, 2, 2)

\* the world half extents in position units (extendSizeWorld)
HalfWorld(mesh) ==
    LET e == ExtendSize(mesh) IN Vec(200 * e.x, 200 * e.y, 200 * e.z)

\* boundingInfo.boundingBox.centerWorld
CenterWorld(mesh) ==
    CASE mesh = "crate" -> Vec(3000, 1000, 3150)
      [] OTHER -> Vec(0, HalfWorld(mesh).y, 0)

\* boundingInfo.boundingBox.minimumWorld
MinimumWorld(mesh) ==
    LET c == CenterWorld(mesh)
        h == HalfWorld(mesh)
    IN  Vec(c.x - h.x, c.y - h.y, c.z - h.z)

\* boundingInfo.boundingBox.maximumWorld
MaximumWorld(mesh) ==
    LET c == CenterWorld(mesh)
        h == HalfWorld(mesh)
    IN  Vec(c.x + h.x, c.y + h.y, c.z + h.z)

\* boundingInfo.boundingSphere.centerWorld
SphereCenterWorld(mesh) == CenterWorld(mesh)

\* boundingInfo.boundingSphere.radiusWorld: the length of the world half diagonal
\* (the half extents are chosen so that it is a whole number)
SphereRadiusWorld(mesh) ==
    CASE mesh \in {"rock", "crate"} -> 3000
      [] mesh = "hall" -> 60000
      [] mesh = "container" -> 300000
      [] mesh = "decal" -> 2000
      [] OTHER -> 600

(***************************************************************************)
(* CollisionManager                                                        *)
(***************************************************************************)

\* private playerRadius: number = 0.5
DEFAULT_PLAYER_RADIUS == 1000

\* checkCollision: if (distance < 0.001) return to.clone()
MIN_MOVE_DISTANCE == 2

\* checkCollisionWithSliding: DistanceSquared(directResult, to) < 0.001
NO_COLLISION_DIST_SQ == 4000

\* checkCollisionWithSliding: DistanceSquared(from, resultX) > 0.0001
MOVED_DIST_SQ == 400

\* checkCylinderCollision: Math.abs(playerPos.y - cylinderData.maxY) < 0.1
STANDING_TOLERANCE == 200

\* checkLandOnTop: position.y >= topY - 0.5
LANDING_THRESHOLD == 1000

\* registerCollidable: volume < 0.001 (in 1/1000 cubic world unit)
MIN_VOLUME == 1

\* registerCollidable: volume > 10000 (in 1/1000 cubic world unit)
MAX_VOLUME == 10000000

\* the CustomCollisionData registerCollidable builds from a config entry
CustomData(mesh, config) ==
    LET position == AbsolutePosition(mesh)
    IN  [center |-> Vec(position.x,
                        position.y + config.height \div 2 + config.offsetY,
                        position.z),
         radius |-> config.radius,
         minY |-> position.y + config.offsetY,
         maxY |-> position.y + config.offsetY + config.height]

\* registerCollidable's volume: the product of the three entries of extendSize
BoundingVolume(mesh) ==
    LET boundingSize == ExtendSize(mesh)
    IN  boundingSize.x * boundingSize.y * boundingSize.z

\* registerCollidable's degenerate-volume test
VolumeRejected(volume) == volume < MIN_VOLUME \/ volume > MAX_VOLUME

\* C11's mutant of checkCylinderCollision: no standing-on-top exemption
checkCylinderCollision_NoStandingOnTop(playerPos, playerRadius, cylinderData) ==
    LET dx == playerPos.x - cylinderData.center.x
        dz == playerPos.z - cylinderData.center.z
        combinedRadius == playerRadius + cylinderData.radius
    IN  /\ playerPos.y >= cylinderData.minY /\ playerPos.y <= cylinderData.maxY
        /\ dx * dx + dz * dz < combinedRadius * combinedRadius

\* C2's mutant of checkCylinderCollision: the body's radius is left out
checkCylinderCollision_NoBodyRadius(playerPos, playerRadius, cylinderData) ==
    LET dx == playerPos.x - cylinderData.center.x
        dz == playerPos.z - cylinderData.center.z
    IN  /\ Abs(playerPos.y - cylinderData.maxY) >= STANDING_TOLERANCE
        /\ playerPos.y >= cylinderData.minY /\ playerPos.y <= cylinderData.maxY
        /\ dx * dx + dz * dz < cylinderData.radius * cylinderData.radius

\* checkCylinderCollision(playerPos, playerRadius, cylinderData)
checkCylinderCollision(playerPos, playerRadius, cylinderData) ==
    LET standingOnTop == Abs(playerPos.y - cylinderData.maxY) < STANDING_TOLERANCE
        dx == playerPos.x - cylinderData.center.x
        dz == playerPos.z - cylinderData.center.z
        horizontalDistSq == dx * dx + dz * dz
        combinedRadius == playerRadius + cylinderData.radius
    IN  IF standingOnTop THEN FALSE
        ELSE IF playerPos.y < cylinderData.minY \/ playerPos.y > cylinderData.maxY
             THEN FALSE
             ELSE horizontalDistSq < combinedRadius * combinedRadius

\* isPointInsideOrNearMesh(point, mesh, buffer)
isPointInsideOrNearMesh(point, mesh, buffer) ==
    LET min == MinimumWorld(mesh)
        max == MaximumWorld(mesh)
    IN  /\ HasBoundingInfo(mesh)
        /\ point.x >= min.x - buffer /\ point.x <= max.x + buffer
        /\ point.z >= min.z - buffer /\ point.z <= max.z + buffer
        /\ point.y >= min.y - buffer /\ point.y <= max.y + buffer

\* checkCollision's box branch: bounding-sphere broad phase, then the narrow phase
BoxCollision(to, mesh, playerRadius) ==
    LET meshCenter == SphereCenterWorld(mesh)
        meshRadius == SphereRadiusWorld(mesh)
        combinedRadius == playerRadius + meshRadius
    IN  /\ HasBoundingInfo(mesh)
        /\ DistanceSquared(to, meshCenter) < combinedRadius * combinedRadius
        /\ isPointInsideOrNearMesh(to, mesh, playerRadius)

\* one turn of checkCollision's loop: does this mesh stop the move to `to`
MeshBlocks(custom, mesh, to, playerRadius) ==
    /\ mesh \in enabledMeshes
    /\ mesh \in visibleMeshes
    /\ IF mesh \in DOMAIN custom
       THEN checkCylinderCollision(to, playerRadius, custom[mesh])
       ELSE BoxCollision(to, mesh, playerRadius)

\* C9's mutant of StopPosition: the body is put back at `from`, height included
StopPosition_KeepsOldHeight(from, to) == Vec(from.x, from.y, from.z)

\* the position checkCollision returns when a mesh stops the move
StopPosition(from, to) == Vec(from.x, to.y, from.z)

\* checkCollision over a given registry (collider set, cylinder table)
checkCollisionIn(meshes, custom, from, to, playerRadius) ==
    IF meshes = {} THEN to
    ELSE IF DistanceSquared(from, to) < MIN_MOVE_DISTANCE * MIN_MOVE_DISTANCE THEN to
    ELSE IF \E mesh \in meshes : MeshBlocks(custom, mesh, to, playerRadius)
         THEN StopPosition(from, to)
         ELSE to

\* checkCollision(from, to, playerRadius)
checkCollision(from, to, playerRadius) ==
    checkCollisionIn(collidableMeshes, customCollisions, from, to, playerRadius)

\* checkCollisionWithSliding over a given registry
checkCollisionWithSlidingIn(meshes, custom, from, to, playerRadius) ==
    LET directResult == checkCollisionIn(meshes, custom, from, to, playerRadius)
        slideX == Vec(to.x, to.y, from.z)
        resultX == checkCollisionIn(meshes, custom, from, slideX, playerRadius)
        movedX == DistanceSquared(from, resultX) > MOVED_DIST_SQ
        slideZ == Vec(from.x, to.y, to.z)
        resultZ == checkCollisionIn(meshes, custom, from, slideZ, playerRadius)
        movedZ == DistanceSquared(from, resultZ) > MOVED_DIST_SQ
    IN  IF DistanceSquared(directResult, to) < NO_COLLISION_DIST_SQ THEN directResult
        ELSE IF movedX /\ ~movedZ THEN resultX
        ELSE IF movedZ /\ ~movedX THEN resultZ
        ELSE IF movedX /\ movedZ
             THEN IF DistanceSquared(from, resultX) > DistanceSquared(from, resultZ)
                  THEN resultX
                  ELSE resultZ
             ELSE Vec(from.x, to.y, from.z)

\* checkCollisionWithSliding(from, to, playerRadius)
checkCollisionWithSliding(from, to, playerRadius) ==
    checkCollisionWithSlidingIn(collidableMeshes, customCollisions, from, to, playerRadius)

\* C12's mutant of LandingCandidate: a top exactly 0.5 above the body does not count
LandingCandidate_StrictThreshold(custom, mesh, position, playerRadius) ==
    /\ mesh \in enabledMeshes
    /\ mesh \in visibleMeshes
    /\ mesh \in DOMAIN custom
    /\ LET customData == custom[mesh]
           dx == position.x - customData.center.x
           dz == position.z - customData.center.z
           combinedRadius == playerRadius + customData.radius
       IN  /\ dx * dx + dz * dz < combinedRadius * combinedRadius
           /\ position.y > customData.maxY - LANDING_THRESHOLD

\* checkLandOnTop's test of one mesh: a cylinder under the body, top within the threshold
LandingCandidate(custom, mesh, position, playerRadius) ==
    /\ mesh \in enabledMeshes
    /\ mesh \in visibleMeshes
    /\ mesh \in DOMAIN custom
    /\ LET customData == custom[mesh]
           dx == position.x - customData.center.x
           dz == position.z - customData.center.z
           horizontalDistSq == dx * dx + dz * dz
           combinedRadius == playerRadius + customData.radius
       IN  /\ horizontalDistSq < combinedRadius * combinedRadius
           /\ position.y >= customData.maxY - LANDING_THRESHOLD

\* checkLandOnTop over a given registry: <<highestTopY>>, or <<>> for null
checkLandOnTopIn(meshes, custom, position, playerRadius) ==
    LET tops == {custom[mesh].maxY :
                    mesh \in {m \in meshes :
                                LandingCandidate(custom, m, position, playerRadius)}}
    IN  IF tops = {} THEN <<>>
        ELSE <<CHOOSE t \in tops : \A u \in tops : u <= t>>

\* checkLandOnTop(position, playerRadius)
checkLandOnTop(position, playerRadius) ==
    checkLandOnTopIn(collidableMeshes, customCollisions, position, playerRadius)

\* a Map with no entry
EmptyMap == [m \in {} |-> Null]

\* Map.set
MapSet(map, key, value) ==
    [k \in DOMAIN map \cup {key} |-> IF k = key THEN value ELSE map[k]]

\* Map.delete
MapDelete(map, key) == [k \in DOMAIN map \ {key} |-> map[k]]

\* the record of a call: operation, arguments and result
CallRecord(op, mesh, asset, from, to, playerRadius, result) ==
    [op |-> op, mesh |-> mesh, asset |-> asset, from |-> from, to |-> to,
     playerRadius |-> playerRadius, result |-> result, after |-> <<from, to>>]

\* the caller's from and to vectors after checkCollision: the method works on copies
\* (to.clone(), to.subtract(from)) and writes only to its own correctedPosition
ArgumentsAfter(from, to, result) == <<from, to>>

\* new CollisionManager(scene)
InitCollision ==
    /\ collidableMeshes = {}
    /\ customCollisions = EmptyMap
    /\ checkCollisions = {}
    /\ enabledMeshes = Meshes
    /\ visibleMeshes = Meshes
    /\ removed = {}
    /\ call = CallRecord("constructor", Null, Null, ZeroVec, ZeroVec, 0, <<>>)

\* registerCollidable(mesh, assetName?)
RegisterCollidable(mesh, assetName) ==
    LET meshAssetName == IF assetName # Null THEN assetName ELSE getAssetName(mesh)
        hasConfig == meshAssetName # Null /\ meshAssetName \in DOMAIN collisionConfig
    IN  /\ call' = CallRecord("registerCollidable", mesh, assetName,
                              ZeroVec, ZeroVec, 0, <<>>)
        /\ UNCHANGED <<enabledMeshes, visibleMeshes>>
        /\ UNCHANGED <<playerVars, terrainVars, navVars, cameraVars, npcVars>>
        /\ IF ~HasBoundingInfo(mesh)
           THEN UNCHANGED <<collidableMeshes, customCollisions, checkCollisions, removed>>
           ELSE IF hasConfig
           THEN IF ~collisionConfig[meshAssetName].enabled
                THEN UNCHANGED <<collidableMeshes, customCollisions,
                                 checkCollisions, removed>>
                ELSE /\ customCollisions' =
                            MapSet(customCollisions, mesh,
                                   CustomData(mesh, collisionConfig[meshAssetName]))
                     /\ collidableMeshes' = collidableMeshes \cup {mesh}
                     /\ removed' = removed \ {mesh}
                     /\ UNCHANGED checkCollisions
           ELSE IF VolumeRejected(BoundingVolume(mesh))
                THEN UNCHANGED <<collidableMeshes, customCollisions,
                                 checkCollisions, removed>>
                ELSE /\ checkCollisions' = checkCollisions \cup {mesh}
                     /\ collidableMeshes' = collidableMeshes \cup {mesh}
                     /\ removed' = removed \ {mesh}
                     /\ UNCHANGED customCollisions

\* C10's mutant of Unregistered: the cylinder table is not touched
Unregistered_KeepsCylinder(mesh) == <<collidableMeshes \ {mesh}, customCollisions>>

\* the registry after unregisterCollidable(mesh): <<collider set, cylinder table>>
Unregistered(mesh) ==
    <<collidableMeshes \ {mesh}, MapDelete(customCollisions, mesh)>>

\* unregisterCollidable(mesh)
UnregisterCollidable(mesh) ==
    /\ collidableMeshes' = Unregistered(mesh)[1]
    /\ customCollisions' = Unregistered(mesh)[2]
    /\ checkCollisions' = checkCollisions \ {mesh}
    /\ removed' = removed \cup {mesh}
    /\ call' = CallRecord("unregisterCollidable", mesh, Null, ZeroVec, ZeroVec, 0, <<>>)
    /\ UNCHANGED <<enabledMeshes, visibleMeshes>>
    /\ UNCHANGED <<playerVars, terrainVars, navVars, cameraVars, npcVars>>

\* clearAll()
ClearAll ==
    /\ checkCollisions' = checkCollisions \ collidableMeshes
    /\ collidableMeshes' = {}
    /\ call' = CallRecord("clearAll", Null, Null, ZeroVec, ZeroVec, 0, <<>>)
    /\ UNCHANGED <<customCollisions, enabledMeshes, visibleMeshes, removed>>
    /\ UNCHANGED <<playerVars, terrainVars, navVars, cameraVars, npcVars>>

\* dispose(): the debug meshes are disposed (none: debugMode is off), then clearAll()
Dispose ==
    /\ checkCollisions' = checkCollisions \ collidableMeshes
    /\ collidableMeshes' = {}
    /\ call' = CallRecord("dispose", Null, Null, ZeroVec, ZeroVec, 0, <<>>)
    /\ UNCHANGED <<customCollisions, enabledMeshes, visibleMeshes, removed>>
    /\ UNCHANGED <<playerVars, terrainVars, navVars, cameraVars, npcVars>>

\* the scene enables or disables a mesh (mesh.setEnabled)
SetEnabled(mesh, on) ==
    /\ enabledMeshes' = IF on THEN enabledMeshes \cup {mesh} ELSE enabledMeshes \ {mesh}
    /\ call' = CallRecord("setEnabled", mesh, Null, ZeroVec, ZeroVec, 0, <<>>)
    /\ UNCHANGED <<collidableMeshes, customCollisions, checkCollisions,
                   visibleMeshes, removed>>
    /\ UNCHANGED <<playerVars, terrainVars, navVars, cameraVars, npcVars>>

\* the scene shows or hides a mesh (mesh.isVisible = ...)
SetVisible(mesh, on) ==
    /\ visibleMeshes' = IF on THEN visibleMeshes \cup {mesh} ELSE visibleMeshes \ {mesh}
    /\ call' = CallRecord("setVisible", mesh, Null, ZeroVec, ZeroVec, 0, <<>>)
    /\ UNCHANGED <<collidableMeshes, customCollisions, checkCollisions,
                   enabledMeshes, removed>>
    /\ UNCHANGED <<playerVars, terrainVars, navVars, cameraVars, npcVars>>

\* a caller asks checkCollision(from, to, playerRadius)
CheckCollision(from, to, playerRadius) ==
    /\ LET result == checkCollision(from, to, playerRadius)
       IN  call' = [CallRecord("checkCollision", Null, Null, from, to, playerRadius, result)
                        EXCEPT !.after = ArgumentsAfter(from, to, result)]
    /\ UNCHANGED <<collidableMeshes, customCollisions, checkCollisions,
                   enabledMeshes, visibleMeshes, removed>>
    /\ UNCHANGED <<playerVars, terrainVars, navVars, cameraVars, npcVars>>

\* a caller asks checkCollisionWithSliding(from, to, playerRadius)
CheckCollisionWithSliding(from, to, playerRadius) ==
    /\ call' = CallRecord("checkCollisionWithSliding", Null, Null, from, to, playerRadius,
                          checkCollisionWithSliding(from, to, playerRadius))
    /\ UNCHANGED <<collidableMeshes, customCollisions, checkCollisions,
                   enabledMeshes, visibleMeshes, removed>>
    /\ UNCHANGED <<playerVars, terrainVars, navVars, cameraVars, npcVars>>

\* a caller asks checkLandOnTop(position, playerRadius)
CheckLandOnTop(position, playerRadius) ==
    /\ call' = CallRecord("checkLandOnTop", Null, Null, position, position, playerRadius,
                          checkLandOnTop(position, playerRadius))
    /\ UNCHANGED <<collidableMeshes, customCollisions, checkCollisions,
                   enabledMeshes, visibleMeshes, removed>>
    /\ UNCHANGED <<playerVars, terrainVars, navVars, cameraVars, npcVars>>

(***************************************************************************)
(* The inputs of the collision resolver.                                   *)
(***************************************************************************)

\* horizontal positions <<x, z>> around the rock (combined radius 3000 for a body of
\* radius 1000) and the crate (its box grown by 1000 starts at z = 150)
GroundPoints ==
    { <<3000, 0>>,      \* on the rock's combined radius: outside
      <<2999, 0>>,      \* inside, less than 0.001 away from the first
      <<2980, 40>>,     \* inside, 0.022 away
      <<2900, 200>>,    \* inside both
      <<2900, 10>>,     \* inside the rock only
      <<2200, 2200>>,   \* outside, on the diagonal
      <<2050, 2100>>,   \* inside, both axis moves from the diagonal point are free
      <<3200, 0>> }     \* outside

\* heights: below every landing threshold, mid band, near the rock's top, above it
Heights == {0, 1000, 1900, 2400}

Points == {Vec(p[1], y, p[2]) : p \in GroundPoints, y \in Heights}

\* body radii
Radii == {500, DEFAULT_PLAYER_RADIUS}

\* the meshes the collision specification registers and hides
CollisionMeshes == {"rock", "crate"}

Hideable == {"rock"}

\* the registrations the collision specification makes: <<mesh, assetName>>
CollisionRegistrations == {<<"rock", Null>>, <<"crate", Null>>, <<"crate", "rock.gltf">>}

\* the resolver's queries
CheckOps == {"checkCollision", "checkCollisionWithSliding", "checkLandOnTop"}

\* the caller takes the result of its query
TakeResult ==
    /\ call.op \in CheckOps
    /\ call' = CallRecord("idle", Null, Null, ZeroVec, ZeroVec, 0, <<>>)
    /\ UNCHANGED <<collidableMeshes, customCollisions, checkCollisions,
                   enabledMeshes, visibleMeshes, removed>>
    /\ UNCHANGED <<playerVars, terrainVars, navVars, cameraVars, npcVars>>

\* the single update thread: one call at a time, a query's result is taken before the next
NextCollision ==
    \/ /\ call.op \notin CheckOps
       /\ \E reg \in CollisionRegistrations : RegisterCollidable(reg[1], reg[2])
    \/ /\ call.op \notin CheckOps
       /\ \E mesh \in CollisionMeshes : UnregisterCollidable(mesh)
    \/ /\ call.op \notin CheckOps
       /\ ClearAll
    \/ /\ call.op \notin CheckOps
       /\ Dispose
    \/ /\ call.op \notin CheckOps
       /\ \E mesh \in Hideable, on \in BOOLEAN : SetEnabled(mesh, on)
    \/ /\ call.op \notin CheckOps
       /\ \E mesh \in Hideable, on \in BOOLEAN : SetVisible(mesh, on)
    \/ /\ call.op \notin CheckOps
       /\ \E from \in Points, to \in Points, r \in Radii : CheckCollision(from, to, r)
    \/ /\ call.op \notin CheckOps
       /\ \E from \in Points, to \in Points, r \in Radii :
                CheckCollisionWithSliding(from, to, r)
    \/ /\ call.op \notin CheckOps
       /\ \E position \in Points, r \in Radii : CheckLandOnTop(position, r)
    \/ TakeResult

\* the registrations the registry specification makes
RegistryRegistrations ==
    {<<mesh, Null>> : mesh \in Meshes}
        \cup {<<"crate", "rock.gltf">>, <<"crate", "grass.gltf">>}

NextRegistry ==
    \/ \E reg \in RegistryRegistrations : RegisterCollidable(reg[1], reg[2])
    \/ \E mesh \in Meshes : UnregisterCollidable(mesh)
    \/ ClearAll
    \/ Dispose

(***************************************************************************)
(* PlayerController and PhysicsSystem (1 unit is 1/100 world unit)         *)
(***************************************************************************)

\* GameConfig.MOVE_SPEED: 0.1
MOVE_SPEED == 10

\* GameConfig.SPRINT_MULTIPLIER: 2.0
SPRINT_MULTIPLIER == 2

\* GameConfig.JUMP_FORCE: 0.3
JUMP_FORCE == 30

\* GameConfig.GRAVITY: -0.02
GRAVITY == -2

\* GameConfig.PLAYER_GROUND_HEIGHT: 1
PLAYER_GROUND_HEIGHT == 100

\* the horizontal positions the model follows the player over
MaxCoordinate == 20

\* MovementInput, without rotateLeft and rotateRight, which PlayerController never reads
MovementInputs ==
    [forward : BOOLEAN, backward : BOOLEAN, left : BOOLEAN, right : BOOLEAN,
     jump : BOOLEAN, sprint : BOOLEAN]

NoInput ==
    [forward |-> FALSE, backward |-> FALSE, left |-> FALSE, right |-> FALSE,
     jump |-> FALSE, sprint |-> FALSE]

\* CameraController.getForwardDirection: the camera's forward ray, flattened and
\* normalised; an ArcRotateCamera at alpha looks along (-cos alpha, -sin alpha)
getForwardDirection(alpha) ==
    CASE alpha = 0 -> Vec(-1, 0, 0)
      [] alpha = 1 -> Vec(0, 0, -1)
      [] alpha = 2 -> Vec(1, 0, 0)
      [] OTHER -> Vec(0, 0, 1)

\* Vector3.Cross
Cross(a, b) ==
    Vec(a.y * b.z - a.z * b.y, a.z * b.x - a.x * b.z, a.x * b.y - a.y * b.x)

\* CameraController.getRightDirection: Cross(forward, Up)
getRightDirection(alpha) == Cross(getForwardDirection(alpha), Vec(0, 1, 0))

\* calculateMovement with the sprint multiplier applied along the forward axis only
calculateMovement_SprintForwardOnly(input, alpha) ==
    LET moveZ == IF input.backward THEN -1 ELSE IF input.forward THEN 1 ELSE 0
        moveX == IF input.right THEN 1 ELSE IF input.left THEN -1 ELSE 0
        isMoving == input.forward \/ input.backward \/ input.left \/ input.right
        forward == getForwardDirection(alpha)
        right == getRightDirection(alpha)
        speed == IF input.sprint THEN MOVE_SPEED * SPRINT_MULTIPLIER ELSE MOVE_SPEED
    IN  IF isMoving
        THEN Vec(forward.x * moveZ * speed + right.x * moveX * MOVE_SPEED,
                 forward.y * moveZ * speed + right.y * moveX * MOVE_SPEED,
                 forward.z * moveZ * speed + right.z * moveX * MOVE_SPEED)
        ELSE ZeroVec

\* PlayerController.calculateMovement
calculateMovement(input, alpha) ==
    LET moveZ == IF input.backward THEN -1 ELSE IF input.forward THEN 1 ELSE 0
        moveX == IF input.right THEN 1 ELSE IF input.left THEN -1 ELSE 0
        isMoving == input.forward \/ input.backward \/ input.left \/ input.right
        forward == getForwardDirection(alpha)
        right == getRightDirection(alpha)
        speed == IF input.sprint THEN MOVE_SPEED * SPRINT_MULTIPLIER ELSE MOVE_SPEED
    IN  IF isMoving
        THEN Vec(forward.x * moveZ * speed + right.x * moveX * speed,
                 forward.y * moveZ * speed + right.y * moveX * speed,
                 forward.z * moveZ * speed + right.z * moveX * speed)
        ELSE ZeroVec

\* C15's mutant of jump: the grounded flag is not looked at
jump_Always(state) ==
    [velocity |-> [state.velocity EXCEPT !.y = JUMP_FORCE], isGrounded |-> FALSE]

\* PhysicsSystem.jump on a state <<velocity, isGrounded>>
jump(state) ==
    IF ~state.isGrounded THEN state
    ELSE [velocity |-> [state.velocity EXCEPT !.y = JUMP_FORCE], isGrounded |-> FALSE]

\* PhysicsSystem.applyGravity
applyGravity(v) == [v EXCEPT !.y = v.y + GRAVITY]

\* C14's mutant of applyVelocity: the height is left alone
applyVelocity_NoVertical(pos, v) == Vec(pos.x + v.x, pos.y, pos.z + v.z)

\* PhysicsSystem.applyVelocity
applyVelocity(pos, v) == Vec(pos.x + v.x, pos.y + v.y, pos.z + v.z)

\* C13's mutant of checkGroundCollision: the vertical velocity is kept on landing
checkGroundCollision_KeepsVelocity(pos, v) ==
    IF pos.y <= PLAYER_GROUND_HEIGHT
    THEN [position |-> [pos EXCEPT !.y = PLAYER_GROUND_HEIGHT],
          velocity |-> v,
          isGrounded |-> TRUE]
    ELSE [position |-> pos, velocity |-> v, isGrounded |-> FALSE]

\* PhysicsSystem.checkGroundCollision on <<position, velocity, isGrounded>>
checkGroundCollision(pos, v) ==
    IF pos.y <= PLAYER_GROUND_HEIGHT
    THEN [position |-> [pos EXCEPT !.y = PLAYER_GROUND_HEIGHT],
          velocity |-> [v EXCEPT !.y = 0],
          isGrounded |-> TRUE]
    ELSE [position |-> pos, velocity |-> v, isGrounded |-> FALSE]

\* the facing set to the direction of the keys held: a quarter turn for left or right
Facing_FollowsMovement(input, alpha) ==
    IF input.left THEN (alpha + 3) % 4
    ELSE IF input.right THEN (alpha + 1) % 4
    ELSE alpha

\* this.state.mesh.rotation.y = cameraController.getAlpha()
Facing(input, alpha) == alpha

\* the body of PlayerController.update: the state after it
UpdateResult(input) ==
    LET movement == calculateMovement(input, cameraAlpha)
        \* const velocity = new Vector3(state.velocity.x, state.velocity.y, state.velocity.z)
        local == Vec(movement.x, velocity.y, movement.z)
        \* if (input.jump) physics.jump(this.state): writes state.velocity, not the copy
        jumped == IF input.jump
                  THEN jump([velocity |-> velocity, isGrounded |-> isGrounded])
                  ELSE [velocity |-> velocity, isGrounded |-> isGrounded]
        \* physics.applyGravity(velocity); this.state.velocity = {...velocity}
        integrated == applyGravity(local)
        moved == applyVelocity(meshPosition, integrated)
    IN  checkGroundCollision(moved, integrated)

\* new PlayerController(scene)
InitPlayer ==
    /\ playerMesh = Null
    /\ meshPosition = ZeroVec
    /\ velocity = ZeroVec
    /\ isGrounded = FALSE
    /\ rotationY = 0
    /\ cameraAlpha = 3
    /\ lastInput = [op |-> "constructor", input |-> NoInput]
    /\ airborne = <<>>

\* loadPlayer: the controller mesh is created at the origin
LoadPlayer ==
    /\ playerMesh = Null
    /\ playerMesh' = "playerController"
    /\ meshPosition' = ZeroVec
    /\ lastInput' = [op |-> "loadPlayer", input |-> NoInput]
    /\ UNCHANGED <<velocity, isGrounded, rotationY, cameraAlpha, airborne>>
    /\ UNCHANGED <<collVars, terrainVars, navVars, cameraVars, npcVars>>

\* PlayerController.update(input, cameraController, physics)
Update(input) ==
    /\ playerMesh # Null
    /\ LET after == UpdateResult(input)
       IN  /\ Abs(after.position.x) <= MaxCoordinate
           /\ Abs(after.position.z) <= MaxCoordinate
           /\ meshPosition' = after.position
           /\ velocity' = after.velocity
           /\ isGrounded' = after.isGrounded
           /\ airborne' = IF airborne # <<>> /\ ~input.jump /\ ~after.isGrounded
                          THEN <<[airborne[1] EXCEPT !.ticks = @ + 1]>>
                          ELSE <<>>
    /\ rotationY' = Facing(input, cameraAlpha)
    /\ lastInput' = [op |-> "update", input |-> input]
    /\ UNCHANGED <<playerMesh, cameraAlpha>>
    /\ UNCHANGED <<collVars, terrainVars, navVars, cameraVars, npcVars>>

\* the user drags the camera a quarter turn
TurnCamera(delta) ==
    /\ cameraAlpha' = (cameraAlpha + delta) % 4
    /\ lastInput' = [op |-> "turnCamera", input |-> NoInput]
    /\ UNCHANGED <<playerMesh, meshPosition, velocity, isGrounded, rotationY, airborne>>
    /\ UNCHANGED <<collVars, terrainVars, navVars, cameraVars, npcVars>>

\* the heights a caller lifts the body to
FallHeights == {150, 320}

\* a caller lifts the body at rest through getMesh(): getMesh().position.y = height
PlaceBody(height) ==
    /\ playerMesh # Null
    /\ velocity.y = 0
    /\ meshPosition' = [meshPosition EXCEPT !.y = height]
    /\ airborne' = <<[start |-> height, ticks |-> 0]>>
    /\ lastInput' = [op |-> "placeBody", input |-> NoInput]
    /\ UNCHANGED <<playerMesh, velocity, isGrounded, rotationY, cameraAlpha>>
    /\ UNCHANGED <<collVars, terrainVars, navVars, cameraVars, npcVars>>

\* a caller calls physics.jump(state) itself
PhysicsJump ==
    /\ playerMesh # Null
    /\ LET after == jump([velocity |-> velocity, isGrounded |-> isGrounded])
       IN  /\ velocity' = after.velocity
           /\ isGrounded' = after.isGrounded
    /\ airborne' = <<>>
    /\ lastInput' = [op |-> "jump", input |-> NoInput]
    /\ UNCHANGED <<playerMesh, meshPosition, rotationY, cameraAlpha>>
    /\ UNCHANGED <<collVars, terrainVars, navVars, cameraVars, npcVars>>

\* the inputs of the updates of a falling body
FallInputs ==
    {input \in MovementInputs :
        ~input.backward /\ ~input.left /\ ~input.right /\ ~input.sprint}

NextPlayer ==
    \/ LoadPlayer
    \/ \E input \in MovementInputs : Update(input)
    \/ \E delta \in {1, 3} : TurnCamera(delta)

\* the player controller with a caller that lifts the body
NextFall ==
    \/ LoadPlayer
    \/ \E height \in FallHeights : PlaceBody(height)
    \/ \E input \in FallInputs : Update(input)
    \/ \E delta \in {1, 3} : TurnCamera(delta)

\* the player controller with a caller of PhysicsSystem.jump
NextPhysics ==
    \/ LoadPlayer
    \/ PhysicsJump
    \/ \E input \in FallInputs : Update(input)
    \/ \E delta \in {1, 3} : TurnCamera(delta)

(***************************************************************************)
(* TerrainService (x and z in 1/4 world unit, time in ms)                  *)
(***************************************************************************)

\* CACHE_DURATION = 500
CACHE_DURATION == 500

\* GRID_SIZE = 0.5
GRID_SIZE == 2

\* the clock stops here
MaxTime == 1000

\* Number.toFixed(1) of a coordinate: its value in tenths, rounded
ToFixed1(c) == (c * 10 + 2) \div 4

\* TerrainService.getCacheKey: <<"gridX.toFixed(1)", "gridZ.toFixed(1)">>
getCacheKey(x, z) ==
    LET gridX == (x \div GRID_SIZE) * GRID_SIZE
        gridZ == (z \div GRID_SIZE) * GRID_SIZE
    IN  <<ToFixed1(gridX), ToFixed1(gridZ)>>

\* C6's mutant of CacheFresh: the comparison is turned round
CacheFresh_Reversed(cached, time) == time - cached.timestamp > CACHE_DURATION

\* C8's mutant of CacheFresh: an entry exactly CACHE_DURATION old is still trusted
CacheFresh_Inclusive(cached, time) == time - cached.timestamp <= CACHE_DURATION

\* cached && Date.now() - cached.timestamp < CACHE_DURATION
CacheFresh(cached, time) == time - cached.timestamp < CACHE_DURATION

\* scene.pickWithRay on the mesh named 'ground': <<>> or <<pickedPoint.y>>
pickWithRay(terrain, x, z) == terrain[<<x, z>>]

\* TerrainService.getGroundHeight: its result (<<>> is null), the cache it leaves
\* and the number of ray probes it made
getGroundHeight(cache, terrain, time, x, z, useCache) ==
    LET cacheKey == getCacheKey(x, z)
        hit == pickWithRay(terrain, x, z)
    IN  IF /\ useCache
           /\ cacheKey \in DOMAIN cache
           /\ CacheFresh(cache[cacheKey], time)
        THEN [result |-> <<cache[cacheKey].height>>, cache |-> cache, probes |-> 0]
        ELSE IF hit # <<>>
        THEN [result |-> hit,
              cache |-> MapSet(cache, cacheKey, [height |-> hit[1], timestamp |-> time]),
              probes |-> 1]
        ELSE [result |-> <<>>, cache |-> cache, probes |-> 1]

\* TerrainService.cleanCache: the cache it leaves
cleanCache(cache, time) ==
    [k \in {key \in DOMAIN cache : ~(time - cache[key].timestamp > CACHE_DURATION)}
        |-> cache[k]]

\* the points queried: 0 and 1 share a cache cell, 2 lies in the next one
TerrainXs == {0, 1, 2}

TerrainZs == {0}

LowestPoints == {0, 1}

\* the grounds the scene can hold: no ground under some points, and two points of
\* one cache cell at different heights
Terrains ==
    { [pt \in TerrainXs \X TerrainZs |->
          CASE pt[1] = 0 -> <<3>> [] pt[1] = 1 -> <<>> [] OTHER -> <<5>>],
      [pt \in TerrainXs \X TerrainZs |->
          CASE pt[1] = 0 -> <<3>> [] pt[1] = 1 -> <<4>> [] OTHER -> <<>>] }

TickSteps == {250}

\* the record of a call: arguments, result, ray probes made, and the entry the
\* cache held under the call's key when it was made (<<>> if none)
TerrainCall(op, x, z, useCache, lowest, result, probes) ==
    [op |-> op, x |-> x, z |-> z, useCache |-> useCache, lowest |-> lowest,
     result |-> result, probes |-> probes,
     found |-> IF op \in {"getGroundHeight", "snapPositionToGround", "getSpawnPosition"}
                  /\ getCacheKey(x, z) \in DOMAIN heightCache
               THEN <<heightCache[getCacheKey(x, z)]>> ELSE <<>>]

\* new TerrainService(scene)
InitTerrain ==
    /\ heightCache = EmptyMap
    /\ now = 0
    /\ ground \in Terrains
    /\ terrainCall = TerrainCall("constructor", 0, 0, FALSE, 0, <<>>, 0)
    /\ marked = <<>>

\* getGroundHeight(x, z, useCache); `mark` remembers the call for a later comparison
GetGroundHeight(x, z, useCache, mark) ==
    LET r == getGroundHeight(heightCache, ground, now, x, z, useCache)
        cacheKey == getCacheKey(x, z)
        entry == IF cacheKey \in DOMAIN r.cache /\ r.result # <<>>
                 THEN <<r.cache[cacheKey]>> ELSE <<>>
    IN  /\ mark => useCache
        /\ heightCache' = r.cache
        /\ terrainCall' = TerrainCall("getGroundHeight", x, z, useCache, 0, r.result, r.probes)
        /\ marked' = IF mark
                     THEN <<[x |-> x, z |-> z, time |-> now, result |-> r.result,
                             entry |-> entry]>>
                     ELSE marked
        /\ UNCHANGED <<now, ground>>
        /\ UNCHANGED <<collVars, playerVars, navVars, cameraVars, npcVars>>

\* snapPositionToGround(position, modelLowestPoint)
SnapPositionToGround(x, z, lowest) ==
    LET r == getGroundHeight(heightCache, ground, now, x, z, TRUE)
    IN  /\ heightCache' = r.cache
        /\ terrainCall' = TerrainCall("snapPositionToGround", x, z, TRUE, lowest,
               IF r.result # <<>> THEN <<Vec(x, r.result[1] - lowest, z)>> ELSE <<>>,
               r.probes)
        /\ UNCHANGED <<now, ground, marked>>
        /\ UNCHANGED <<collVars, playerVars, navVars, cameraVars, npcVars>>

\* getSpawnPosition(x, z, modelLowestPoint)
GetSpawnPosition(x, z, lowest) ==
    LET r == getGroundHeight(heightCache, ground, now, x, z, FALSE)
    IN  /\ heightCache' = r.cache
        /\ terrainCall' = TerrainCall("getSpawnPosition", x, z, FALSE, lowest,
               IF r.result # <<>> THEN <<Vec(x, r.result[1] - lowest, z)>> ELSE <<>>,
               r.probes)
        /\ UNCHANGED <<now, ground, marked>>
        /\ UNCHANGED <<collVars, playerVars, navVars, cameraVars, npcVars>>

\* cleanCache()
CleanCache ==
    /\ heightCache' = cleanCache(heightCache, now)
    /\ terrainCall' = TerrainCall("cleanCache", 0, 0, FALSE, 0, <<>>, 0)
    /\ UNCHANGED <<now, ground, marked>>
    /\ UNCHANGED <<collVars, playerVars, navVars, cameraVars, npcVars>>

\* Date.now() advances between calls
Tick(d) ==
    /\ now + d <= MaxTime
    /\ now' = now + d
    /\ terrainCall' = TerrainCall("tick", 0, 0, FALSE, 0, <<>>, 0)
    /\ UNCHANGED <<heightCache, ground, marked>>
    /\ UNCHANGED <<collVars, playerVars, navVars, cameraVars, npcVars>>

\* the ground mesh is replaced; a remembered call is no longer comparable
WorldChange(terrain) ==
    /\ terrain # ground
    /\ ground' = terrain
    /\ marked' = <<>>
    /\ terrainCall' = TerrainCall("worldChange", 0, 0, FALSE, 0, <<>>, 0)
    /\ UNCHANGED <<heightCache, now>>
    /\ UNCHANGED <<collVars, playerVars, navVars, cameraVars, npcVars>>

NextTerrain ==
    \/ \E x \in TerrainXs, z \in TerrainZs, useCache \in BOOLEAN, mark \in BOOLEAN :
           GetGroundHeight(x, z, useCache, mark)
    \/ \E x \in TerrainXs, z \in TerrainZs, lowest \in LowestPoints :
           SnapPositionToGround(x, z, lowest)
    \/ \E x \in TerrainXs, z \in TerrainZs, lowest \in LowestPoints :
           GetSpawnPosition(x, z, lowest)
    \/ CleanCache
    \/ \E d \in TickSteps : Tick(d)
    \/ \E terrain \in Terrains : WorldChange(terrain)

(***************************************************************************)
(* PathfindingService (x and z in 1/2 world unit)                          *)
(***************************************************************************)

\* worldSize, in world units: the side of the square world the grid covers
WorldSize == 20

\* cellSize = 1.0
CELL_SIZE == 2

\* this.worldSize / 2
halfWorld == WorldSize

\* this.gridSize = Math.ceil(worldSize / cellSize)
gridSize == (2 * WorldSize + CELL_SIZE - 1) \div CELL_SIZE

\* Pathfinder: the grid index of a world coordinate
worldToGrid(c) == (c + halfWorld) \div CELL_SIZE

InGrid(g) == 0 <= g /\ g < gridSize

GridCells == (0 .. gridSize - 1) \X (0 .. gridSize - 1)

\* Pathfinder: the world coordinate of the centre of a cell
CellCenter(g) == g * CELL_SIZE - halfWorld + CELL_SIZE \div 2

\* Pathfinder.is_walkable
is_walkable(cells, x, z) ==
    /\ InGrid(worldToGrid(x))
    /\ InGrid(worldToGrid(z))
    /\ <<worldToGrid(x), worldToGrid(z)>> \notin cells

\* Pathfinder.set_blocked
set_blocked(cells, x, z) ==
    IF InGrid(worldToGrid(x)) /\ InGrid(worldToGrid(z))
    THEN cells \cup {<<worldToGrid(x), worldToGrid(z)>>}
    ELSE cells

\* Pathfinder.set_blocked_circle
set_blocked_circle(cells, x, z, radius) ==
    cells \cup {c \in GridCells :
                  (CellCenter(c[1]) - x) * (CellCenter(c[1]) - x)
                + (CellCenter(c[2]) - z) * (CellCenter(c[2]) - z) <= radius * radius}

\* (collisionManager as any).colliders: CollisionManager declares no property of
\* that name, so the read yields undefined; the empty list takes the same branch
colliders == <<>>

RECURSIVE BlockColliders(_, _)
\* for (const collider of colliders) set_blocked_circle(position.x, position.z, radius || 1.0)
BlockColliders(cells, list) ==
    IF list = <<>> THEN cells
    ELSE BlockColliders(
             set_blocked_circle(cells, list[1].position.x, list[1].position.z,
                                IF list[1].radius = 0 THEN CELL_SIZE ELSE list[1].radius),
             Tail(list))

\* the x and z the boundary loop visits: -halfWorld, -halfWorld + cellSize, ... <= halfWorld
BoundarySteps == {c \in (0 - halfWorld) .. halfWorld : (c + halfWorld) % CELL_SIZE = 0}

\* the boundary loop of buildNavigationGrid, margin = cellSize
BlockBoundary(cells) ==
    cells \cup {<<worldToGrid(pt[1]), worldToGrid(pt[2])>> :
                  pt \in {q \in BoundarySteps \X BoundarySteps :
                            /\ \/ Abs(q[1]) > halfWorld - CELL_SIZE
                               \/ Abs(q[2]) > halfWorld - CELL_SIZE
                            /\ InGrid(worldToGrid(q[1]))
                            /\ InGrid(worldToGrid(q[2]))}}

\* PathfindingService.buildNavigationGrid: the blocked cells it leaves
buildNavigationGrid(cells) ==
    IF Len(colliders) = 0 THEN cells
    ELSE BlockBoundary(BlockColliders(cells, colliders))

\* PathfindingService.isWalkable
isWalkable(initialized, cells, x, z) == initialized /\ is_walkable(cells, x, z)

\* Pathfinder: the cells one step away from a cell, the grid being 8-connected
Neighbors(c) ==
    {d \in {<<c[1] + dx, c[2] + dz>> : dx \in {0 - 1, 0, 1}, dz \in {0 - 1, 0, 1}} :
        d # c /\ InGrid(d[1]) /\ InGrid(d[2])}

RECURSIVE SearchLayers(_, _, _, _, _)
\* Pathfinder: the search over walkable cells at uniform step cost, outward from
\* the goal: layers[k] holds the walkable cells k - 1 steps from the goal; the
\* search ends when it reaches the start or runs out of cells
SearchLayers(cells, start, frontier, seen, layers) ==
    IF frontier = {} \/ start \in frontier THEN Append(layers, frontier)
    ELSE LET reached == (UNION {Neighbors(c) : c \in frontier}) \ (seen \cup cells)
         IN  SearchLayers(cells, start, reached, seen \cup reached, Append(layers, frontier))

RECURSIVE WalkLayers(_, _, _)
\* Pathfinder: the cells of one shortest route, from a cell of layer k to the goal
WalkLayers(layers, cell, k) ==
    IF k = 1 THEN <<cell>>
    ELSE <<cell>> \o WalkLayers(layers,
                                CHOOSE d \in Neighbors(cell) \cap layers[k - 1] : TRUE,
                                k - 1)

RECURSIVE Flatten(_)
\* Pathfinder: the flat array [x1, z1, x2, z2, ...] of the centres of a route's cells
Flatten(route) ==
    IF route = <<>> THEN <<>>
    ELSE <<CellCenter(route[1][1]), CellCenter(route[1][2])>> \o Flatten(Tail(route))

\* Pathfinder.find_path: empty when the start or the goal is outside the grid or
\* blocked, or when the goal cannot be reached
find_path(cells, sx, sz, gx, gz) ==
    LET start == <<worldToGrid(sx), worldToGrid(sz)>>
        goal == <<worldToGrid(gx), worldToGrid(gz)>>
    IN  IF \/ ~(InGrid(start[1]) /\ InGrid(start[2]))
           \/ ~(InGrid(goal[1]) /\ InGrid(goal[2]))
           \/ start \in cells
           \/ goal \in cells
        THEN <<>>
        ELSE LET layers == SearchLayers(cells, start, {goal}, {goal}, <<>>)
             IN  IF start \notin layers[Len(layers)] THEN <<>>
                 ELSE Flatten(WalkLayers(layers, start, Len(layers)))

\* Pathfinder.get_random_walkable_position: every array a call can return, the
\* sampler drawing points within `radius` of the centre and keeping a walkable
\* one, or giving up with the empty array
get_random_walkable_position(cells, cx, cz, radius) ==
    {<<>>} \cup
    {<<cx + dx, cz + dz>> : <<dx, dz>> \in
        {d \in ((0 - radius) .. radius) \X ((0 - radius) .. radius) :
            /\ d[1] * d[1] + d[2] * d[2] <= radius * radius
            /\ is_walkable(cells, cx + d[1], cz + d[2])}}

\* the loop of findPath reading x from flatPath[i] and z from flatPath[i + 1], swapped
findPath_SwapsAxes(initialized, cells, start, goal) ==
    IF ~initialized THEN <<>>
    ELSE LET flatPath == find_path(cells, start.x, start.z, goal.x, goal.z)
         IN  IF Len(flatPath) = 0 THEN <<>>
             ELSE [i \in 1 .. Len(flatPath) \div 2 |->
                      Vec(flatPath[2 * i], start.y, flatPath[2 * i - 1])]

\* findPath without its isInitialized guard
findPath_IgnoresInit(initialized, cells, start, goal) ==
    LET flatPath == find_path(cells, start.x, start.z, goal.x, goal.z)
    IN  IF Len(flatPath) = 0 THEN <<>>
        ELSE [i \in 1 .. Len(flatPath) \div 2 |->
                 Vec(flatPath[2 * i - 1], start.y, flatPath[2 * i])]

\* PathfindingService.findPath
findPath(initialized, cells, start, goal) ==
    IF ~initialized THEN <<>>
    ELSE LET flatPath == find_path(cells, start.x, start.z, goal.x, goal.z)
         IN  IF Len(flatPath) = 0 THEN <<>>
             ELSE [i \in 1 .. Len(flatPath) \div 2 |->
                      Vec(flatPath[2 * i - 1], start.y, flatPath[2 * i])]

\* PathfindingService.getRandomWalkablePosition: every value a call can return
getRandomWalkablePosition(initialized, cells, center, radius) ==
    IF ~initialized THEN {<<>>}
    ELSE {IF Len(result) = 2 THEN <<Vec(result[1], center.y, result[2])>> ELSE <<>> :
            result \in get_random_walkable_position(cells, center.x, center.z, radius)}

\* the grid coordinate unit of a collision coordinate (1/2000 unit to 1/2 unit)
NavCoord(c) == c \div 1000

NavPoints == {<<0, 0>>, <<3, 3>>, <<0 - halfWorld, 0 - halfWorld>>, <<halfWorld, 0>>}

\* setBlocked radii: the default 0.5 and 2.0
NavRadii == {1, 4}

NavCall(op, x, z, radius, result) ==
    [op |-> op, x |-> x, z |-> z, radius |-> radius, result |-> result,
     y |-> 0, goal |-> ZeroVec]

\* the operations of the service that answer a question
NavQueryOps == {"isWalkable", "findPath", "getRandomWalkablePosition"}

\* the height of the positions handed to the queries
QueryHeight == 3

\* setBlocked positions and radii of the path scenarios: a circle of radius 2 at
\* the origin, one cell beside the z axis, and the three cells around the corner cell
PathStamps ==
    {<<0, 0, 4>>, <<1, 7, 1>>,
     <<CellCenter(1), CellCenter(0), 1>>,
     <<CellCenter(0), CellCenter(1), 1>>,
     <<CellCenter(1), CellCenter(1), 1>>}

\* the points of the path scenarios: (-5, 0), (5, 0), the origin, the corner
\* cell and a point past the edge of the grid
PathPoints ==
    {<<0 - 10, 0>>, <<10, 0>>, <<0, 0>>, <<CellCenter(0), CellCenter(0)>>, <<halfWorld, 0>>}

\* the start and goal pairs asked for
PathQueries ==
    {q \in PathPoints \X PathPoints : q[1] = <<0 - 10, 0>> \/ q[2] = <<0 - 10, 0>>}

\* the centres and radii of getRandomWalkablePosition: the origin, a point on
\* the edge of the grid and a point far outside it; radii 1.0 and 2.0
SampleCenters == {<<0, 0>>, <<halfWorld, 0>>, <<halfWorld + 10, 0>>}

SampleRadii == {2, 4}

\* new PathfindingService(worldSize)
InitNav ==
    /\ blocked = {}
    /\ isInitialized = FALSE
    /\ navCall = NavCall("constructor", 0, 0, 0, FALSE)

\* buildNavigationGrid(collisionManager)
BuildNavigationGrid ==
    /\ blocked' = buildNavigationGrid(blocked)
    /\ isInitialized' = TRUE
    /\ navCall' = NavCall("buildNavigationGrid", 0, 0, 0, FALSE)
    /\ UNCHANGED <<collVars, playerVars, terrainVars, cameraVars, npcVars>>

\* setBlocked(position, radius)
SetBlocked(x, z, radius) ==
    /\ blocked' = IF ~isInitialized THEN blocked
                  ELSE IF radius > CELL_SIZE THEN set_blocked_circle(blocked, x, z, radius)
                  ELSE set_blocked(blocked, x, z)
    /\ navCall' = NavCall("setBlocked", x, z, radius, FALSE)
    /\ UNCHANGED isInitialized
    /\ UNCHANGED <<collVars, playerVars, terrainVars, cameraVars, npcVars>>

\* isWalkable(position)
IsWalkable(x, z) ==
    /\ navCall' = NavCall("isWalkable", x, z, 0, isWalkable(isInitialized, blocked, x, z))
    /\ UNCHANGED <<blocked, isInitialized>>
    /\ UNCHANGED <<collVars, playerVars, terrainVars, cameraVars, npcVars>>

\* findPath(start, goal)
FindPath(start, goal) ==
    /\ navCall' = [NavCall("findPath", start.x, start.z, 0,
                            findPath(isInitialized, blocked, start, goal))
                      EXCEPT !.y = start.y, !.goal = goal]
    /\ UNCHANGED <<blocked, isInitialized>>
    /\ UNCHANGED <<collVars, playerVars, terrainVars, cameraVars, npcVars>>

\* getRandomWalkablePosition(center, radius)
GetRandomWalkablePosition(center, radius) ==
    /\ \E result \in getRandomWalkablePosition(isInitialized, blocked, center, radius) :
           navCall' = [NavCall("getRandomWalkablePosition", center.x, center.z, radius, result)
                         EXCEPT !.y = center.y]
    /\ UNCHANGED <<blocked, isInitialized>>
    /\ UNCHANGED <<collVars, playerVars, terrainVars, cameraVars, npcVars>>

\* the caller takes the answer of a query before it calls the service again
NavTakeResult ==
    /\ navCall.op \in NavQueryOps
    /\ navCall' = NavCall("idle", 0, 0, 0, FALSE)
    /\ UNCHANGED <<blocked, isInitialized>>
    /\ UNCHANGED <<collVars, playerVars, terrainVars, cameraVars, npcVars>>

NextPath ==
    \/ /\ navCall.op \notin NavQueryOps
       /\ BuildNavigationGrid
    \/ /\ navCall.op \notin NavQueryOps
       /\ \E stamp \in PathStamps : SetBlocked(stamp[1], stamp[2], stamp[3])
    \/ /\ navCall.op \notin NavQueryOps
       /\ \E pt \in PathPoints : IsWalkable(pt[1], pt[2])
    \/ /\ navCall.op \notin NavQueryOps
       /\ \E q \in PathQueries :
              FindPath(Vec(q[1][1], QueryHeight, q[1][2]), Vec(q[2][1], QueryHeight, q[2][2]))
    \/ /\ navCall.op \notin NavQueryOps
       /\ \E pt \in SampleCenters, radius \in SampleRadii :
              GetRandomWalkablePosition(Vec(pt[1], QueryHeight, pt[2]), radius)
    \/ NavTakeResult

NextNav ==
    \/ BuildNavigationGrid
    \/ \E pt \in NavPoints, radius \in NavRadii : SetBlocked(pt[1], pt[2], radius)
    \/ \E pt \in NavPoints : IsWalkable(pt[1], pt[2])
    \/ /\ call.op \notin CheckOps
       /\ \E reg \in CollisionRegistrations : RegisterCollidable(reg[1], reg[2])
    \/ /\ call.op \notin CheckOps
       /\ \E mesh \in CollisionMeshes : UnregisterCollidable(mesh)

(***************************************************************************)
(* CameraController (angles in 1/10000 rad, pi taken as 3.1416)            *)
(***************************************************************************)

\* Math.PI
PI == 31416

\* the largest |camera.alpha| a drag is followed to
MaxAlpha == 32000

\* the updates the realignment is given
REALIGN_UPDATES == 150

\* deltaX / camera.angularSensibilityX with CAMERA_ANGULAR_SENSITIVITY = 500:
\* 1/500 rad, that is 20 units of angle, for each pixel
PIXEL_ANGLE == 20

RECURSIVE normalizeAngle(_)
\* normalizeAngle
normalizeAngle(angle) ==
    IF angle > PI THEN normalizeAngle(angle - 2 * PI)
    ELSE IF angle < 0 - PI THEN normalizeAngle(angle + 2 * PI)
    ELSE angle

\* getShortestAngleDiff
getShortestAngleDiff(from, to) ==
    LET diff == normalizeAngle(to) - normalizeAngle(from)
        lowered == IF diff > PI THEN diff - 2 * PI ELSE diff
    IN  IF lowered < 0 - PI THEN lowered + 2 * PI ELSE lowered

\* the formula of calculateCameraAlphaBehindCharacter without the negation
calculateCameraAlphaBehindCharacter_NoNegation(characterRotationY) ==
    characterRotationY - PI \div 2

\* calculateCameraAlphaBehindCharacter
calculateCameraAlphaBehindCharacter(characterRotationY) ==
    0 - characterRotationY - PI \div 2

\* diff * this.realignSpeed with realignSpeed = 0.05, rounded toward zero
RealignStep(diff) ==
    IF diff >= 0 THEN (diff * 5) \div 100 ELSE 0 - (((0 - diff) * 5) \div 100)

\* the part of update after the early returns: the new targetAlpha and camAlpha
Realigned(a, t, target) ==
    LET newTarget == IF target # <<>>
                     THEN normalizeAngle(calculateCameraAlphaBehindCharacter(target[1]))
                     ELSE t
        diff == getShortestAngleDiff(a, newTarget)
    IN  [targetAlpha |-> newTarget,
         alpha |-> IF Abs(diff) > 100 THEN normalizeAngle(a + RealignStep(diff)) ELSE a]

\* update with the realignment done while a button is held as well
update_NoDragGuard(a, t, held, target, isCharacterMoving, isCharacterRotating) ==
    IF isCharacterRotating /\ target # <<>>
    THEN [targetAlpha |-> calculateCameraAlphaBehindCharacter(target[1]),
          alpha |-> calculateCameraAlphaBehindCharacter(target[1])]
    ELSE IF isCharacterMoving THEN [targetAlpha |-> a, alpha |-> a]
    ELSE Realigned(a, t, target)

\* CameraController.update: the targetAlpha and camAlpha it leaves
update(a, t, held, target, isCharacterMoving, isCharacterRotating) ==
    IF held THEN [targetAlpha |-> a, alpha |-> a]
    ELSE IF isCharacterRotating /\ target # <<>>
    THEN [targetAlpha |-> calculateCameraAlphaBehindCharacter(target[1]),
          alpha |-> calculateCameraAlphaBehindCharacter(target[1])]
    ELSE IF isCharacterMoving THEN [targetAlpha |-> a, alpha |-> a]
    ELSE Realigned(a, t, target)

\* the rotation.y of the character: 0, pi/2, pi, -pi/2 and 1 rad
TargetRotations == {0, PI \div 2, PI, 0 - PI \div 2, 10000}

\* event.button: left, middle, right
Buttons == {0, 1, 2}

\* the pixels a pointer moves between two events: a quarter turn either way
DragPixels == {0 - 785, 785}

CameraCall(op, isCharacterMoving, isCharacterRotating) ==
    [op |-> op, moving |-> isCharacterMoving, rotating |-> isCharacterRotating]

\* the history after a step other than an idle update
Restart(a, afterDrag) == [updates |-> 0, afterDrag |-> afterDrag, start |-> a]

\* the steps that set a scene up come before the idle updates that realign the
\* camera: no idle update has run since the last other step
Settled == realign.updates = 0

\* new CameraController(scene, canvas)
InitCamera ==
    /\ camAlpha = 0 - PI \div 2
    /\ targetAlpha = 0 - PI \div 2
    /\ isRightMouseDown = FALSE
    /\ isLeftMouseDown = FALSE
    /\ lockedTarget = <<>>
    /\ cameraCall = CameraCall("constructor", FALSE, FALSE)
    /\ realign = Restart(0 - PI \div 2, FALSE)

\* setTarget(target)
SetTarget(r) ==
    /\ Settled
    /\ lockedTarget' = <<r>>
    /\ cameraCall' = CameraCall("setTarget", FALSE, FALSE)
    /\ realign' = Restart(camAlpha, FALSE)
    /\ UNCHANGED <<camAlpha, targetAlpha, isRightMouseDown, isLeftMouseDown>>
    /\ UNCHANGED <<collVars, playerVars, terrainVars, navVars, npcVars>>

\* the owner of the locked mesh turns it: target.rotation.y = r
TurnCharacter(r) ==
    /\ Settled
    /\ lockedTarget # <<>>
    /\ lockedTarget' = <<r>>
    /\ cameraCall' = CameraCall("turnCharacter", FALSE, FALSE)
    /\ realign' = Restart(camAlpha, FALSE)
    /\ UNCHANGED <<camAlpha, targetAlpha, isRightMouseDown, isLeftMouseDown>>
    /\ UNCHANGED <<collVars, playerVars, terrainVars, navVars, npcVars>>

\* the pointer observer on POINTERDOWN
PointerDown(button) ==
    /\ Settled
    /\ isRightMouseDown' = IF button = 2 THEN TRUE ELSE isRightMouseDown
    /\ isLeftMouseDown' = IF button # 2 /\ button = 0 THEN TRUE ELSE isLeftMouseDown
    /\ cameraCall' = CameraCall("pointerDown", FALSE, FALSE)
    /\ realign' = Restart(camAlpha, FALSE)
    /\ UNCHANGED <<camAlpha, targetAlpha, lockedTarget>>
    /\ UNCHANGED <<collVars, playerVars, terrainVars, navVars, npcVars>>

\* the pointer observer on POINTERUP
PointerUp(button) ==
    /\ Settled
    /\ isRightMouseDown' = IF button = 2 THEN FALSE ELSE isRightMouseDown
    /\ isLeftMouseDown' = IF button # 2 /\ button = 0 THEN FALSE ELSE isLeftMouseDown
    /\ cameraCall' = CameraCall("pointerUp", FALSE, FALSE)
    /\ realign' = Restart(camAlpha, /\ isRightMouseDown \/ isLeftMouseDown
                                 /\ ~isRightMouseDown' /\ ~isLeftMouseDown')
    /\ UNCHANGED <<camAlpha, targetAlpha, lockedTarget>>
    /\ UNCHANGED <<collVars, playerVars, terrainVars, navVars, npcVars>>

\* the pointer observer on POINTERMOVE, deltaX pixels from the last position
PointerMove(deltaX) ==
    /\ Settled
    /\ Abs(camAlpha + deltaX * PIXEL_ANGLE) <= MaxAlpha
    /\ camAlpha' = IF isRightMouseDown THEN camAlpha + deltaX * PIXEL_ANGLE ELSE camAlpha
    /\ cameraCall' = CameraCall("pointerMove", FALSE, FALSE)
    /\ realign' = Restart(camAlpha', FALSE)
    /\ UNCHANGED <<targetAlpha, isRightMouseDown, isLeftMouseDown, lockedTarget>>
    /\ UNCHANGED <<collVars, playerVars, terrainVars, navVars, npcVars>>

\* the camera's own mouse input, attached for the left button only, turns the
\* camera by a drag of deltaX pixels
CameraInput(deltaX) ==
    /\ Settled
    /\ isLeftMouseDown
    /\ Abs(camAlpha + deltaX * PIXEL_ANGLE) <= MaxAlpha
    /\ camAlpha' = camAlpha + deltaX * PIXEL_ANGLE
    /\ cameraCall' = CameraCall("cameraInput", FALSE, FALSE)
    /\ realign' = Restart(camAlpha', FALSE)
    /\ UNCHANGED <<targetAlpha, isRightMouseDown, isLeftMouseDown, lockedTarget>>
    /\ UNCHANGED <<collVars, playerVars, terrainVars, navVars, npcVars>>

\* update(isCharacterMoving, isCharacterRotating)
CameraUpdate(isCharacterMoving, isCharacterRotating) ==
    LET after == update(camAlpha, targetAlpha, isRightMouseDown \/ isLeftMouseDown,
                        lockedTarget, isCharacterMoving, isCharacterRotating)
        \* the update takes none of the early returns; with a locked target
        \* that is: no button held, character neither moving nor rotating
        idle == /\ ~isRightMouseDown /\ ~isLeftMouseDown
                /\ ~(isCharacterRotating /\ lockedTarget # <<>>)
                /\ ~isCharacterMoving
    IN  /\ idle \/ Settled
        /\ camAlpha' = after.alpha
        /\ targetAlpha' = after.targetAlpha
        /\ cameraCall' = CameraCall("update", isCharacterMoving, isCharacterRotating)
        /\ realign' = IF idle
                      THEN [realign EXCEPT !.updates = IF @ < REALIGN_UPDATES THEN @ + 1 ELSE @]
                      ELSE Restart(after.alpha, FALSE)
        /\ UNCHANGED <<isRightMouseDown, isLeftMouseDown, lockedTarget>>
        /\ UNCHANGED <<collVars, playerVars, terrainVars, navVars, npcVars>>

NextCamera ==
    \/ \E r \in TargetRotations : SetTarget(r)
    \/ \E r \in TargetRotations : TurnCharacter(r)
    \/ \E button \in Buttons : PointerDown(button)
    \/ \E button \in Buttons : PointerUp(button)
    \/ \E deltaX \in DragPixels : PointerMove(deltaX)
    \/ \E deltaX \in DragPixels : CameraInput(deltaX)
    \/ \E isCharacterMoving \in BOOLEAN, isCharacterRotating \in BOOLEAN :
           CameraUpdate(isCharacterMoving, isCharacterRotating)

(***************************************************************************)
(* NPC, NPCManager, TargetingSystem and the Game's melee attack.            *)
(* The NPCs and the player stand on the x axis (same height, z = 0), so a   *)
(* distance is a difference of x coordinates and a normalised direction is  *)
(* its sign.  Positions are in 1/100 world unit, times in ms, angles in     *)
(* 1/10000 rad as for the camera.                                           *)
(***************************************************************************)

\* NPC.maxHealth, and the health an NPC is constructed with
maxHealth == 100

\* NPC.moveSpeed: 0.15 world unit per unit of deltaTime
moveSpeed == 15

\* NPC.wanderSpeed: 0.05 world unit per unit of deltaTime
wanderSpeed == 5

\* NPC.detectionRange: 15 world units
detectionRange == 1500

\* NPC.attackRange: 2.5 world units
attackRange == 250

\* NPC.attackCooldown, ms
attackCooldown == 1000

\* NPC.attackDamage
attackDamage == 10

\* NPC.waypointReachedThreshold: 1.0 world unit
waypointReachedThreshold == 100

\* NPC.wanderCooldownTime, ms
wanderCooldownTime == 3000

\* CombatSystem.attackRange: 3 world units
playerAttackRange == 300

\* CombatSystem.attackDamage
playerAttackDamage == 25

\* the sign of a difference: a direction on the x axis after normalize()
Sign(n) == IF n > 0 THEN 1 ELSE IF n < 0 THEN -1 ELSE 0

\* new NPC(scene, spawnPosition, name, modelName, terrainService, pathfindingService)
NewNPC(spawnPosition, service) ==
    [ health |-> maxHealth,
      state |-> "Idle",
      x |-> spawnPosition,
      spawnPosition |-> spawnPosition,
      lastAttackTime |-> 0,
      wanderPath |-> <<>>,
      currentWaypointIndex |-> 0,
      lastWanderTime |-> 0,
      pathfindingService |-> service ]

\* generateWanderPath: `route` is what findPath returned for the goal that
\* getRandomWalkablePosition picked, <<>> when there is no goal or no path
generateWanderPath(n, route) ==
    IF ~n.pathfindingService THEN n
    ELSE IF Len(route) > 0
         THEN [n EXCEPT !.wanderPath = route,
                        !.currentWaypointIndex = 0,
                        !.state = "Wandering"]
         ELSE n

\* updateWanderingBehavior(deltaTime), with currentTime = Date.now()
updateWanderingBehavior(n, deltaTime, currentTime, route) ==
    IF ~n.pathfindingService THEN [n EXCEPT !.state = "Idle"]
    ELSE IF Len(n.wanderPath) > 0 /\ n.currentWaypointIndex < Len(n.wanderPath)
         THEN LET targetWaypoint == n.wanderPath[n.currentWaypointIndex + 1]
                  direction == targetWaypoint - n.x
                  distanceToWaypoint == Abs(direction)
              IN  IF distanceToWaypoint < waypointReachedThreshold
                  THEN IF n.currentWaypointIndex + 1 >= Len(n.wanderPath)
                       THEN [n EXCEPT !.wanderPath = <<>>,
                                      !.currentWaypointIndex = 0,
                                      !.lastWanderTime = currentTime,
                                      !.state = "Idle"]
                       ELSE [n EXCEPT !.state = "Wandering",
                                      !.currentWaypointIndex = @ + 1]
                  ELSE [n EXCEPT !.state = "Wandering",
                                 !.x = @ + Sign(direction) * wanderSpeed * deltaTime]
         ELSE LET idle == [n EXCEPT !.state = "Idle"]
                  timeSinceLastWander == currentTime - n.lastWanderTime
              IN  IF timeSinceLastWander >= wanderCooldownTime
                  THEN generateWanderPath(idle, route)
                  ELSE idle

\* the result of NPC.update: the NPC afterwards and what it reports
UpdateOutcome(n, attacked, damage) == [npc |-> n, attacked |-> attacked, damage |-> damage]

\* C26's mutant of updateNPC: the attack does not wait for the cooldown
updateNPC_NoCooldown(n, playerPosition, deltaTime, currentTime, route) ==
    LET distanceToPlayer == Abs(n.x - playerPosition)
    IN  IF n.health <= 0 THEN UpdateOutcome([n EXCEPT !.state = "Idle"], FALSE, 0)
        ELSE IF distanceToPlayer <= attackRange
             THEN UpdateOutcome([n EXCEPT !.state = "Attacking", !.wanderPath = <<>>,
                                          !.lastAttackTime = currentTime],
                                TRUE, attackDamage)
        ELSE IF distanceToPlayer <= detectionRange
             THEN UpdateOutcome([n EXCEPT !.state = "Chasing", !.wanderPath = <<>>,
                                          !.x = @ + Sign(playerPosition - n.x) * moveSpeed * deltaTime],
                                FALSE, 0)
        ELSE UpdateOutcome(updateWanderingBehavior(n, deltaTime, currentTime, route), FALSE, 0)

\* C23's mutant of updateNPC: the chase starts only inside a quarter of the detection range
updateNPC_ShortSighted(n, playerPosition, deltaTime, currentTime, route) ==
    LET distanceToPlayer == Abs(n.x - playerPosition)
        ready == currentTime - n.lastAttackTime >= attackCooldown
    IN  IF n.health <= 0 THEN UpdateOutcome([n EXCEPT !.state = "Idle"], FALSE, 0)
        ELSE IF distanceToPlayer <= attackRange
             THEN UpdateOutcome([n EXCEPT !.state = "Attacking", !.wanderPath = <<>>,
                                          !.lastAttackTime = IF ready THEN currentTime ELSE @],
                                ready, IF ready THEN attackDamage ELSE 0)
        ELSE IF 4 * distanceToPlayer <= detectionRange
             THEN UpdateOutcome([n EXCEPT !.state = "Chasing", !.wanderPath = <<>>,
                                          !.x = @ + Sign(playerPosition - n.x) * moveSpeed * deltaTime],
                                FALSE, 0)
        ELSE UpdateOutcome(updateWanderingBehavior(n, deltaTime, currentTime, route), FALSE, 0)

\* NPC.update(playerPosition, deltaTime), with currentTime = Date.now()
updateNPC(n, playerPosition, deltaTime, currentTime, route) ==
    LET distanceToPlayer == Abs(n.x - playerPosition)
        ready == currentTime - n.lastAttackTime >= attackCooldown
    IN  IF n.health <= 0 THEN UpdateOutcome([n EXCEPT !.state = "Idle"], FALSE, 0)
        ELSE IF distanceToPlayer <= attackRange
             THEN UpdateOutcome([n EXCEPT !.state = "Attacking", !.wanderPath = <<>>,
                                          !.lastAttackTime = IF ready THEN currentTime ELSE @],
                                ready, IF ready THEN attackDamage ELSE 0)
        ELSE IF distanceToPlayer <= detectionRange
             THEN UpdateOutcome([n EXCEPT !.state = "Chasing", !.wanderPath = <<>>,
                                          !.x = @ + Sign(playerPosition - n.x) * moveSpeed * deltaTime],
                                FALSE, 0)
        ELSE UpdateOutcome(updateWanderingBehavior(n, deltaTime, currentTime, route), FALSE, 0)

\* NPC.takeDamage(damage): the NPC afterwards (it returns health <= 0)
takeDamage(n, damage) == [n EXCEPT !.health = @ - damage]

\* NPCManager.getNPCCount()
getNPCCount(list) == Len(list)

\* NPCManager.getAllNPCs()
getAllNPCs(list, data) == SelectSeq(list, LAMBDA id : data[id].health > 0)

\* the damages NPCManager.update collects, walking the array from its end
RECURSIVE CollectAttacks(_, _, _)
CollectAttacks(list, i, outcome) ==
    IF i = 0 THEN <<>>
    ELSE LET id == list[i]
             rest == CollectAttacks(list, i - 1, outcome)
         IN  IF id \in DOMAIN outcome /\ outcome[id].attacked
             THEN <<[damage |-> outcome[id].damage]>> \o rest
             ELSE rest

\* NPCManager.update(playerPosition, deltaTime): dead NPCs are spliced out of
\* the array, every other NPC is updated once and its attack collected
managerUpdate(list, data, playerPosition, deltaTime, currentTime, routes) ==
    LET living == {list[i] : i \in {j \in 1..Len(list) : data[list[j]].health > 0}}
        outcome == [id \in living |->
                       updateNPC(data[id], playerPosition, deltaTime, currentTime, routes[id])]
    IN  [ npcs |-> SelectSeq(list, LAMBDA id : data[id].health > 0),
          data |-> [id \in DOMAIN data |-> IF id \in living THEN outcome[id].npc ELSE data[id]],
          attacked |-> {id \in living : outcome[id].attacked},
          npcAttacks |-> CollectAttacks(list, Len(list), outcome) ]

\* sortNPCsByDistance: Array.prototype.sort is stable, so NPCs at the same
\* distance keep the order of the list
RECURSIVE sortNPCsByDistance(_, _, _)
sortNPCsByDistance(list, data, position) ==
    IF list = <<>> THEN <<>>
    ELSE LET Distance(id) == Abs(position - data[id].x)
             first == CHOOSE i \in 1..Len(list) :
                          /\ \A j \in 1..Len(list) : Distance(list[i]) <= Distance(list[j])
                          /\ \A j \in 1..(i - 1) : Distance(list[j]) > Distance(list[i])
             others == [k \in 1..(Len(list) - 1) |-> IF k < first THEN list[k] ELSE list[k + 1]]
         IN  <<list[first]>> \o sortNPCsByDistance(others, data, position)

\* the index of `id` in a list, 0 when it is not there (findIndex, one-based)
IndexOf(list, id) ==
    IF \E i \in 1..Len(list) : list[i] = id
    THEN CHOOSE i \in 1..Len(list) : list[i] = id /\ \A j \in 1..(i - 1) : list[j] # id
    ELSE 0

\* cycleTarget(availableNPCs, playerPosition): the new currentTarget
cycleTarget(target, availableNPCs, data, playerPosition) ==
    IF availableNPCs = <<>> THEN <<>>
    ELSE LET sortedNPCs == sortNPCsByDistance(availableNPCs, data, playerPosition)
         IN  IF target = <<>> \/ data[target[1]].health <= 0 THEN <<sortedNPCs[1]>>
             ELSE LET currentIndex == IndexOf(sortedNPCs, target[1])
                  IN  IF currentIndex = 0 \/ currentIndex = Len(sortedNPCs)
                      THEN <<sortedNPCs[1]>>
                      ELSE <<sortedNPCs[currentIndex + 1]>>

\* hasTarget()
hasTarget(target, data) == target # <<>> /\ data[target[1]].health > 0

\* isTargetInRange(playerPosition, range)
isTargetInRange(target, data, playerPosition, range) ==
    /\ hasTarget(target, data)
    /\ Abs(playerPosition - data[target[1]].x) <= range

\* Math.atan2(directionToTarget.x, directionToTarget.z) for a direction on the x axis
AngleToTarget(dx) ==
    IF dx > 0 THEN PI \div 2 ELSE IF dx < 0 THEN 0 - (PI \div 2) ELSE 0

\* C28's mutant of isTargetInFront: every target counts as in front
isTargetInFront_Everywhere(target, data, playerPosition, playerRotation) ==
    hasTarget(target, data)

\* isTargetInFront(playerPosition, playerRotation), fieldOfView = Math.PI / 2
isTargetInFront(target, data, playerPosition, playerRotation) ==
    /\ hasTarget(target, data)
    /\ LET angleToTarget == AngleToTarget(data[target[1]].x - playerPosition)
           difference == Abs(normalizeAngle(angleToTarget) - normalizeAngle(playerRotation))
           angleDiff == IF difference > PI THEN 2 * PI - difference ELSE difference
       IN  angleDiff <= PI \div 2

\* WasmPlayerController.performAttack(): whether the attack starts
performAttack(hasAttackAnimation, attacking) == hasAttackAnimation /\ ~attacking

\* Game.performMeleeAttack: the NPC that takes the damage, <<>> when none does
MeleeVictim(target, data, hasMesh, playerPosition, playerRotation, hasAttackAnimation, attacking) ==
    IF ~hasMesh THEN <<>>
    ELSE IF ~hasTarget(target, data) THEN <<>>
    ELSE IF ~isTargetInRange(target, data, playerPosition, playerAttackRange) THEN <<>>
    ELSE IF ~isTargetInFront(target, data, playerPosition, playerRotation) THEN <<>>
    ELSE IF ~performAttack(hasAttackAnimation, attacking) THEN <<>>
    ELSE target

\* where spawnNPCs puts the NPCs it creates, in creation order
SpawnSites == <<1900, 2250, 5000>>

\* the player positions the NPC updates are given: inside the attack range of
\* the first spawn site, inside its detection range, and out of sight
PlayerPositions == {2000, 2300, 6000}

\* the player positions of the Game's frames: the nearest NPC differs between them
HeroPositions == {2000, 2100}

\* playerMesh.rotation.y of the Game's frames
PlayerRotations == {0, PI \div 2, PI, 3 * (PI \div 2)}

\* the deltaTime arguments of the NPC updates
DeltaTimes == {10}

\* the deltaTime the Game passes to NPCManager.update
GameDeltaTime == 1

\* Date.now() when the game is constructed: far beyond both cooldowns
StartTime == wanderCooldownTime

\* how far the clock advances between two steps
TickMs == attackCooldown

\* the clock stops here
MaxDateNow == 7000

\* what findPath may return for the goal getRandomWalkablePosition picked:
\* no path, or waypoints around the NPC's spawn position
Routes(n) ==
    IF ~n.pathfindingService THEN {<<>>}
    ELSE {<<>>, <<n.spawnPosition + 200>>, <<n.spawnPosition, n.spawnPosition - 150>>}

\* one route for each NPC
RouteChoices(data) ==
    {routes \in [DOMAIN data -> UNION {Routes(data[id]) : id \in DOMAIN data}] :
        \A id \in DOMAIN data : routes[id] \in Routes(data[id])}

NPCCall(op, id, playerPosition, playerRotation, deltaTime, attacked, result) ==
    [ op |-> op, id |-> id, playerPosition |-> playerPosition,
      playerRotation |-> playerRotation, deltaTime |-> deltaTime,
      attacked |-> attacked, result |-> result ]

\* the attack history after the NPCs of `attacked` report an attack at `currentTime`
LogAttacks(log, attacked, currentTime) ==
    [id \in DOMAIN log |->
        IF id \in attacked
        THEN IF Len(log[id]) < 2 THEN Append(log[id], currentTime)
             ELSE <<log[id][2], currentTime>>
        ELSE log[id]]

\* the wander history after an update: an NPC that had a path and has none
\* any more stopped following it at `currentTime`
LogWander(log, before, after, currentTime) ==
    [id \in DOMAIN log |->
        IF before[id].wanderPath # <<>> /\ after[id].wanderPath = <<>>
        THEN <<currentTime>>
        ELSE log[id]]

\* the state after the constructors of NPCManager, TargetingSystem and the player
InitNPC ==
    /\ npcs = <<>>
    /\ npcData = <<>>
    /\ pathfindingService = FALSE
    /\ dateNow = StartTime
    /\ currentTarget = <<>>
    /\ isAttacking = FALSE
    /\ npcCall = NPCCall("constructor", 0, 0, 0, 0, {}, <<>>)
    /\ attackLog = <<>>
    /\ wanderLog = <<>>
    /\ cycleLog = [list |-> {}, picks |-> <<>>]

\* NPCManager.spawnNPCs(npcCount); the Game calls it once, when it starts
SpawnNPCs(npcCount) ==
    /\ DOMAIN npcData = {}
    /\ npcCount <= Len(SpawnSites)
    /\ npcData' = [id \in 1..npcCount |-> NewNPC(SpawnSites[id], pathfindingService)]
    /\ npcs' = [id \in 1..npcCount |-> id]
    /\ attackLog' = [id \in 1..npcCount |-> <<>>]
    /\ wanderLog' = [id \in 1..npcCount |-> <<>>]
    /\ npcCall' = NPCCall("spawnNPCs", 0, 0, 0, 0, {}, <<>>)
    /\ UNCHANGED <<pathfindingService, dateNow, currentTarget, isAttacking, cycleLog>>
    /\ UNCHANGED <<collVars, playerVars, terrainVars, navVars, cameraVars>>

\* NPCManager.initializePathfinding(collisionManager): the managed NPCs are
\* given the service
InitializePathfinding ==
    /\ pathfindingService' = TRUE
    /\ npcData' = [id \in DOMAIN npcData |->
                      IF \E i \in 1..Len(npcs) : npcs[i] = id
                      THEN [npcData[id] EXCEPT !.pathfindingService = TRUE]
                      ELSE npcData[id]]
    /\ npcCall' = NPCCall("initializePathfinding", 0, 0, 0, 0, {}, <<>>)
    /\ UNCHANGED <<npcs, dateNow, currentTarget, isAttacking, attackLog, wanderLog, cycleLog>>
    /\ UNCHANGED <<collVars, playerVars, terrainVars, navVars, cameraVars>>

\* time passes: Date.now() grows
ClockTick ==
    /\ dateNow + TickMs <= MaxDateNow
    /\ dateNow' = dateNow + TickMs
    /\ npcCall' = NPCCall("tick", 0, 0, 0, 0, {}, <<>>)
    /\ UNCHANGED <<npcs, npcData, pathfindingService, currentTarget, isAttacking,
                   attackLog, wanderLog, cycleLog>>
    /\ UNCHANGED <<collVars, playerVars, terrainVars, navVars, cameraVars>>

\* npc.update(playerPosition, deltaTime) on one NPC
NPCUpdate(id, playerPosition, deltaTime) ==
    /\ id \in DOMAIN npcData
    /\ \E route \in Routes(npcData[id]) :
        LET outcome == updateNPC(npcData[id], playerPosition, deltaTime, dateNow, route)
            attacked == IF outcome.attacked THEN {id} ELSE {}
        IN  /\ npcData' = [npcData EXCEPT ![id] = outcome.npc]
            /\ attackLog' = LogAttacks(attackLog, attacked, dateNow)
            /\ wanderLog' = LogWander(wanderLog, npcData, npcData', dateNow)
            /\ npcCall' = NPCCall("update", id, playerPosition, 0, deltaTime, attacked,
                                  <<[attacked |-> outcome.attacked, damage |-> outcome.damage]>>)
    /\ UNCHANGED <<npcs, pathfindingService, dateNow, currentTarget, isAttacking, cycleLog>>
    /\ UNCHANGED <<collVars, playerVars, terrainVars, navVars, cameraVars>>

\* npc.takeDamage(damage) on a living NPC
TakeDamage(id, damage) ==
    /\ id \in DOMAIN npcData
    /\ npcData[id].health > 0
    /\ npcData' = [npcData EXCEPT ![id] = takeDamage(npcData[id], damage)]
    /\ npcCall' = NPCCall("takeDamage", id, 0, 0, 0, {}, <<npcData'[id].health <= 0>>)
    /\ UNCHANGED <<npcs, pathfindingService, dateNow, currentTarget, isAttacking,
                   attackLog, wanderLog, cycleLog>>
    /\ UNCHANGED <<collVars, playerVars, terrainVars, navVars, cameraVars>>

\* NPCManager.update(playerPosition, deltaTime)
ManagerUpdate(playerPosition, deltaTime) ==
    /\ npcs # <<>>
    /\ \E routes \in RouteChoices(npcData) :
        LET after == managerUpdate(npcs, npcData, playerPosition, deltaTime, dateNow, routes)
        IN  /\ npcs' = after.npcs
            /\ npcData' = after.data
            /\ attackLog' = LogAttacks(attackLog, after.attacked, dateNow)
            /\ wanderLog' = LogWander(wanderLog, npcData, after.data, dateNow)
            /\ npcCall' = NPCCall("managerUpdate", 0, playerPosition, 0, deltaTime,
                                  after.attacked, after.npcAttacks)
    /\ UNCHANGED <<pathfindingService, dateNow, currentTarget, isAttacking, cycleLog>>
    /\ UNCHANGED <<collVars, playerVars, terrainVars, navVars, cameraVars>>

\* the pick history after cycleTarget chose `pick` from the NPCs of `offered`:
\* the picks of the calls in a row that were given the same NPCs, the last
\* Cardinality(offered) of them
LogPick(log, offered, pick) ==
    IF offered = {} THEN [list |-> {}, picks |-> <<>>]
    ELSE IF log.list # offered THEN [list |-> offered, picks |-> pick]
    ELSE IF Len(log.picks) < Cardinality(offered)
         THEN [log EXCEPT !.picks = @ \o pick]
         ELSE [log EXCEPT !.picks = Tail(@) \o pick]

\* Game.tabTarget: cycleTarget(getAllNPCs(), playerMesh.position)
TabTarget(playerPosition) ==
    /\ npcs # <<>>
    /\ LET availableNPCs == getAllNPCs(npcs, npcData)
       IN  /\ currentTarget' = cycleTarget(currentTarget, availableNPCs, npcData, playerPosition)
           /\ cycleLog' = LogPick(cycleLog, {availableNPCs[i] : i \in 1..Len(availableNPCs)},
                                  currentTarget')
    /\ npcCall' = NPCCall("tabTarget", 0, playerPosition, 0, 0, {}, currentTarget')
    /\ UNCHANGED <<npcs, npcData, pathfindingService, dateNow, isAttacking, attackLog, wanderLog>>
    /\ UNCHANGED <<collVars, playerVars, terrainVars, navVars, cameraVars>>

\* Game.performMeleeAttack, with the player mesh at playerPosition turned to
\* playerRotation
PerformMeleeAttack(hasMesh, playerPosition, playerRotation, hasAttackAnimation) ==
    /\ npcs # <<>>
    /\ LET victim == MeleeVictim(currentTarget, npcData, hasMesh, playerPosition,
                                 playerRotation, hasAttackAnimation, isAttacking)
       IN  /\ isAttacking' = (isAttacking \/ victim # <<>>)
           /\ npcData' = IF victim = <<>> THEN npcData
                         ELSE [npcData EXCEPT ![victim[1]] = takeDamage(@, playerAttackDamage)]
           /\ npcCall' = NPCCall("performMeleeAttack", 0, playerPosition, playerRotation, 0,
                                 {}, victim)
    /\ UNCHANGED <<npcs, pathfindingService, dateNow, currentTarget, attackLog, wanderLog, cycleLog>>
    /\ UNCHANGED <<collVars, playerVars, terrainVars, navVars, cameraVars>>

\* the attack animation ends: onAnimationGroupEndObservable resets isAttacking
AttackAnimationEnd ==
    /\ isAttacking
    /\ isAttacking' = FALSE
    /\ npcCall' = NPCCall("attackAnimationEnd", 0, 0, 0, 0, {}, <<>>)
    /\ UNCHANGED <<npcs, npcData, pathfindingService, dateNow, currentTarget,
                   attackLog, wanderLog, cycleLog>>
    /\ UNCHANGED <<collVars, playerVars, terrainVars, navVars, cameraVars>>

\* one NPC with its AI
NextNPC ==
    \/ SpawnNPCs(1)
    \/ InitializePathfinding
    \/ ClockTick
    \/ \E id \in DOMAIN npcData, playerPosition \in PlayerPositions, deltaTime \in DeltaTimes :
           NPCUpdate(id, playerPosition, deltaTime)
    \/ \E id \in DOMAIN npcData : TakeDamage(id, maxHealth)

\* the Game's frames and key presses with a pack of NPCs
NextCombat ==
    \/ SpawnNPCs(Len(SpawnSites))
    \/ \E playerPosition \in HeroPositions : ManagerUpdate(playerPosition, GameDeltaTime)
    \/ \E playerPosition \in HeroPositions : TabTarget(playerPosition)
    \/ \E hasMesh \in BOOLEAN, playerPosition \in HeroPositions,
          playerRotation \in PlayerRotations, hasAttackAnimation \in BOOLEAN :
           PerformMeleeAttack(hasMesh, playerPosition, playerRotation, hasAttackAnimation)
    \/ AttackAnimationEnd

(***************************************************************************)
(* Specifications                                                          *)
(***************************************************************************)

Init ==
    InitCollision /\ InitPlayer /\ InitTerrain /\ InitNav /\ InitCamera /\ InitNPC

Next ==
    \/ NextCollision \/ NextRegistry \/ NextPlayer \/ NextFall \/ NextPhysics
    \/ NextTerrain \/ NextNav \/ NextPath \/ NextCamera \/ NextNPC \/ NextCombat

Spec == Init /\ [][Next]_vars

SpecCollision == Init /\ [][NextCollision]_vars

SpecRegistry == Init /\ [][NextRegistry]_vars

SpecPlayer == Init /\ [][NextPlayer]_vars

SpecFall == Init /\ [][NextFall]_vars

SpecPhysics == Init /\ [][NextPhysics]_vars

SpecTerrain == Init /\ [][NextTerrain]_vars

SpecNav == Init /\ [][NextNav]_vars

SpecPath == Init /\ [][NextPath]_vars

SpecCamera == Init /\ [][NextCamera]_vars

SpecNPC == Init /\ [][NextNPC]_vars

SpecCombat == Init /\ [][NextCombat]_vars

(***************************************************************************)
(* Claims about the collision resolver, checked under SpecCollision.       *)
(***************************************************************************)

\* is `p` horizontally inside the combined radius of cylinder `c` for a body of radius r
InsideRadius(p, c, r) ==
    (p.x - c.center.x) * (p.x - c.center.x) + (p.z - c.center.z) * (p.z - c.center.z)
        < (r + c.radius) * (r + c.radius)

\* the cylinders that are registered, enabled and visible
ActiveCylinders ==
    {mesh \in collidableMeshes \cap enabledMeshes \cap visibleMeshes :
        mesh \in DOMAIN customCollisions}

\* C2 as stated: a checkCollision move from outside a cylinder's combined radius to a
\* point inside it and within [minY, maxY] returns (from.x, to.y, from.z)
C2_IntoCylinderStops_Original ==
    call.op = "checkCollision" =>
        \A mesh \in ActiveCylinders :
            LET c == customCollisions[mesh]
            IN  (/\ ~InsideRadius(call.from, c, call.playerRadius)
                 /\ InsideRadius(call.to, c, call.playerRadius)
                 /\ c.minY <= call.to.y /\ call.to.y <= c.maxY)
                => call.result = Vec(call.from.x, call.to.y, call.from.z)

\* C2 as amended: the same, for a target height that is not within 0.1 of maxY (the
\* standing-on-top exemption) and a move at least 0.001 long
C2_IntoCylinderStops ==
    call.op = "checkCollision" =>
        \A mesh \in ActiveCylinders :
            LET c == customCollisions[mesh]
            IN  (/\ ~InsideRadius(call.from, c, call.playerRadius)
                 /\ InsideRadius(call.to, c, call.playerRadius)
                 /\ c.minY <= call.to.y /\ call.to.y <= c.maxY
                 /\ Abs(call.to.y - c.maxY) >= STANDING_TOLERANCE
                 /\ DistanceSquared(call.from, call.to)
                        >= MIN_MOVE_DISTANCE * MIN_MOVE_DISTANCE)
                => call.result = Vec(call.from.x, call.to.y, call.from.z)

\* C2's case: a move into the registered rock, mid band, with a change of height, stopped
C2_Witness ==
    /\ call.op = "checkCollision"
    /\ "rock" \in ActiveCylinders
    /\ ~InsideRadius(call.from, customCollisions["rock"], call.playerRadius)
    /\ InsideRadius(call.to, customCollisions["rock"], call.playerRadius)
    /\ call.to.y = 1000 /\ call.from.y = 0
    /\ call.result = Vec(call.from.x, call.to.y, call.from.z)
    /\ call.result # call.to

\* does checkCollision admit the move from `from` to `target`
MoveAdmitted(from, target, r) == checkCollision(from, target, r) = target

\* the results C3 allows when the direct move is blocked
C3_Allowed(from, to, r) ==
    LET slideX == Vec(to.x, to.y, from.z)
        slideZ == Vec(from.x, to.y, to.z)
        freeX == MoveAdmitted(from, slideX, r)
        freeZ == MoveAdmitted(from, slideZ, r)
        distX == DistanceSquared(from, slideX)
        distZ == DistanceSquared(from, slideZ)
    IN  IF freeX /\ ~freeZ THEN {slideX}
        ELSE IF freeZ /\ ~freeX THEN {slideZ}
        ELSE IF freeX /\ freeZ
             THEN {s \in {slideX, slideZ} :
                    DistanceSquared(from, s) = Max(distX, distZ)}
             ELSE {Vec(from.x, to.y, from.z)}

\* C3 as stated: whenever checkCollision blocks the direct move, checkCollisionWithSliding
\* returns the X-only move if it alone is admitted, the Z-only move if it alone is
\* admitted, the farther of the two if both are, and (from.x, to.y, from.z) if neither is
C3_SlidingChoosesAxisMove ==
    (/\ call.op = "checkCollisionWithSliding"
     /\ ~MoveAdmitted(call.from, call.to, call.playerRadius))
    => call.result \in C3_Allowed(call.from, call.to, call.playerRadius)

\* C9: checkCollision returns to.y with either to's or from's (x, z), and changes
\* neither its arguments nor the registry
C9_CheckCollisionFrame ==
    [][call'.op = "checkCollision" =>
        /\ call'.result.y = call'.to.y
        /\ \/ call'.result.x = call'.to.x /\ call'.result.z = call'.to.z
           \/ call'.result.x = call'.from.x /\ call'.result.z = call'.from.z
        /\ call'.after = <<call'.from, call'.to>>
        /\ UNCHANGED <<collidableMeshes, customCollisions, checkCollisions,
                       enabledMeshes, visibleMeshes>>]_vars

\* C9's case: a blocked move with a change of height
C9_Witness ==
    /\ call.op = "checkCollision"
    /\ call.from.y # call.to.y
    /\ call.from.x # call.to.x
    /\ call.result = Vec(call.from.x, call.to.y, call.from.z)

\* the result of query `c` over the registry without `mesh`
ResultWithout(mesh, c) ==
    LET meshes == collidableMeshes \ {mesh}
        custom == MapDelete(customCollisions, mesh)
    IN  CASE c.op = "checkCollision" ->
                checkCollisionIn(meshes, custom, c.from, c.to, c.playerRadius)
          [] c.op = "checkCollisionWithSliding" ->
                checkCollisionWithSlidingIn(meshes, custom, c.from, c.to, c.playerRadius)
          [] c.op = "checkLandOnTop" ->
                checkLandOnTopIn(meshes, custom, c.from, c.playerRadius)

\* C10: a mesh unregistered and not registered since has no entry in the collider set
\* or in the cylinder table, and every query answers as if the mesh did not exist
C10_UnregisteredIsGone ==
    \A mesh \in removed :
        /\ mesh \notin collidableMeshes
        /\ mesh \notin DOMAIN customCollisions
        /\ call.op \in CheckOps => call.result = ResultWithout(mesh, call)

\* C10's case: the rock was unregistered, and a move to a point inside its cylinder,
\* which it would stop, is admitted
C10_Witness ==
    /\ "rock" \in removed
    /\ call.op = "checkCollision"
    /\ "rock" \in enabledMeshes \cap visibleMeshes
    /\ checkCylinderCollision(call.to, call.playerRadius,
                              CustomData("rock", collisionConfig["rock.gltf"]))
    /\ DistanceSquared(call.from, call.to) >= MIN_MOVE_DISTANCE * MIN_MOVE_DISTANCE
    /\ call.result = call.to

\* C11: a checkCollision move to a height within 0.1 of a cylinder's maxY is not
\* blocked by that cylinder (the result is the one the registry without the cylinder
\* gives), wherever the target lies over it; and a body put at the height
\* checkLandOnTop returned is not blocked by any cylinder with that top
C11_StandingOnTopNotBlocked ==
    /\ call.op = "checkCollision" =>
          \A mesh \in ActiveCylinders :
              Abs(call.to.y - customCollisions[mesh].maxY) < STANDING_TOLERANCE
                  => call.result = ResultWithout(mesh, call)
    /\ (call.op = "checkLandOnTop" /\ call.result # <<>>) =>
          \A mesh \in ActiveCylinders :
              customCollisions[mesh].maxY = call.result[1]
                  => ~checkCylinderCollision(
                          Vec(call.from.x, call.result[1], call.from.z),
                          call.playerRadius, customCollisions[mesh])

\* C11's case: a move from outside the rock's combined radius to a point over the
\* rock, 0.05 below its top and inside its band, is admitted
C11_Witness ==
    /\ call.op = "checkCollision"
    /\ "rock" \in ActiveCylinders
    /\ ~InsideRadius(call.from, customCollisions["rock"], call.playerRadius)
    /\ InsideRadius(call.to, customCollisions["rock"], call.playerRadius)
    /\ call.to.y = customCollisions["rock"].maxY - 100
    /\ DistanceSquared(call.from, call.to) >= MIN_MOVE_DISTANCE * MIN_MOVE_DISTANCE
    /\ call.result = call.to

\* the cylinders checkLandOnTop(position, r) may land on: registered, enabled, visible,
\* horizontally within r + radius of the body, top no more than 0.5 above it
QualifyingCylinders(position, r) ==
    {mesh \in ActiveCylinders :
        /\ InsideRadius(position, customCollisions[mesh], r)
        /\ customCollisions[mesh].maxY <= position.y + LANDING_THRESHOLD}

\* C12: checkLandOnTop returns the greatest maxY of the qualifying cylinders, none
\* when there is none, and the answer is the same without any box collider
C12_LandOnHighestTop ==
    call.op = "checkLandOnTop" =>
        LET qualifying == QualifyingCylinders(call.from, call.playerRadius)
        IN  /\ qualifying = {} => call.result = <<>>
            /\ qualifying # {} =>
                  /\ call.result # <<>>
                  /\ \E mesh \in qualifying : customCollisions[mesh].maxY = call.result[1]
                  /\ \A mesh \in qualifying : customCollisions[mesh].maxY <= call.result[1]
            /\ \A mesh \in collidableMeshes \ DOMAIN customCollisions :
                  call.result = ResultWithout(mesh, call)

\* C12's case: two cylinders of different heights qualify and the higher top is returned
C12_Witness ==
    /\ call.op = "checkLandOnTop"
    /\ {"rock", "crate"} \subseteq QualifyingCylinders(call.from, call.playerRadius)
    /\ customCollisions["rock"].maxY < customCollisions["crate"].maxY
    /\ call.from.y < customCollisions["crate"].maxY
    /\ call.result = <<customCollisions["crate"].maxY>>

\* the body at `p` is in the blocking volume of no registered collider
OutsideEveryCollider(p, playerRadius) ==
    \A mesh \in collidableMeshes : ~MeshBlocks(customCollisions, mesh, p, playerRadius)

\* C24 (as stated): when `from` is outside the blocking volume of every
\* registered collider, the position checkCollision or checkCollisionWithSliding
\* returns is outside the blocking volume of every collider as well.
C24_ResolvedStaysOutside ==
    (/\ call.op \in {"checkCollision", "checkCollisionWithSliding"}
     /\ OutsideEveryCollider(call.from, call.playerRadius))
        => OutsideEveryCollider(call.result, call.playerRadius)

(***************************************************************************)
(* Claims about the player controller, checked under SpecPlayer.           *)
(***************************************************************************)

\* C1 (as stated): an update with input.jump set while the player is grounded
\* leaves the vertical velocity at JUMP_FORCE plus one tick of gravity, the
\* player above PLAYER_GROUND_HEIGHT and isGrounded false.
C1_JumpCarriesImpulse ==
    [][(/\ playerMesh # Null
        /\ isGrounded
        /\ lastInput'.op = "update"
        /\ lastInput'.input.jump)
       => (/\ velocity'.y = JUMP_FORCE + GRAVITY
           /\ meshPosition'.y > PLAYER_GROUND_HEIGHT
           /\ ~isGrounded')]_vars

\* C13: whenever the body is grounded its vertical velocity is 0 and its height is
\* PLAYER_GROUND_HEIGHT
C13_GroundedAtRest ==
    isGrounded => (velocity.y = 0 /\ meshPosition.y = PLAYER_GROUND_HEIGHT)

\* C13's case: an update with horizontal movement has left the body grounded
C13_Witness ==
    /\ lastInput.op = "update"
    /\ lastInput.input.forward
    /\ velocity.z # 0
    /\ isGrounded

\* C14: a body put at rest in the air and updated n times without jump or landing
\* has vertical velocity n * GRAVITY and has dropped by GRAVITY * (1 + 2 + ... + n),
\* the sum of the n per-tick velocities
C14_FreeFall ==
    airborne # <<>> =>
        LET n == airborne[1].ticks
        IN  /\ velocity.y = n * GRAVITY
            /\ meshPosition.y = airborne[1].start + GRAVITY * ((n * (n + 1)) \div 2)

\* C14's case: ten ticks of free fall, vertical velocity -0.2
C14_Witness ==
    /\ airborne # <<>>
    /\ airborne[1].ticks = 10
    /\ velocity.y = -20
    /\ ~isGrounded

\* C15: PhysicsSystem.jump on a grounded body sets the vertical velocity to JUMP_FORCE
\* and clears isGrounded; on a body that is not grounded it changes neither; the
\* horizontal velocity and the position are left alone in both cases
C15_JumpOnlyWhenGrounded ==
    [][lastInput'.op = "jump" =>
        /\ isGrounded => (velocity'.y = JUMP_FORCE /\ ~isGrounded')
        /\ ~isGrounded => (velocity' = velocity /\ isGrounded' = isGrounded)
        /\ velocity'.x = velocity.x /\ velocity'.z = velocity.z
        /\ meshPosition' = meshPosition]_vars

\* C15's case: a jump from the ground, followed by updates and a second jump in the
\* air that left the falling velocity alone
C15_Witness ==
    /\ lastInput.op = "jump"
    /\ ~isGrounded
    /\ meshPosition.y > PLAYER_GROUND_HEIGHT
    /\ velocity.y < 0

\* C21: after every PlayerController.update, whatever movement keys are held,
\* the character's rotation.y equals the camera's alpha at that update.
C21_FacesCameraAlpha ==
    [][lastInput'.op = "update" => (rotationY' = cameraAlpha /\ rotationY' = cameraAlpha')]_vars

\* an update with the left key held has run after the camera was turned
C21_Witness ==
    /\ lastInput.op = "update"
    /\ lastInput.input.left
    /\ cameraAlpha # 3
    /\ rotationY = cameraAlpha

\* the speed an update with this input moves at
SpeedOf(input) == IF input.sprint THEN MOVE_SPEED * SPRINT_MULTIPLIER ELSE MOVE_SPEED

\* the square of the horizontal distance between the body before and after the step
HorizontalStepSquared ==
    (meshPosition'.x - meshPosition.x) * (meshPosition'.x - meshPosition.x)
  + (meshPosition'.z - meshPosition.z) * (meshPosition'.z - meshPosition.z)

\* the movement axes the keys engage: forward/backward, left/right
AxesHeld(input) ==
    (IF input.forward \/ input.backward THEN 1 ELSE 0)
  + (IF input.left \/ input.right THEN 1 ELSE 0)

\* C30, as stated: the horizontal displacement of one update has magnitude at
\* most MOVE_SPEED, or MOVE_SPEED * SPRINT_MULTIPLIER while sprinting, whatever
\* movement keys are held.
C30_SpeedBounded_Original ==
    [][lastInput'.op = "update"
          => HorizontalStepSquared <= SpeedOf(lastInput'.input) * SpeedOf(lastInput'.input)]_vars

\* C30 (amended): the square of the horizontal displacement of one update is the
\* square of the speed times the number of movement axes the keys engage: the
\* speed itself along one axis, the speed times the square root of 2 when a
\* forward or backward key is held together with a left or right key.
C30_SpeedBounded ==
    [][lastInput'.op = "update"
          => HorizontalStepSquared
                = AxesHeld(lastInput'.input)
                    * SpeedOf(lastInput'.input) * SpeedOf(lastInput'.input)]_vars

\* a sprinting update with forward and right held has moved the body along both axes
C30_Witness ==
    /\ lastInput.op = "update"
    /\ lastInput.input.forward /\ lastInput.input.right /\ lastInput.input.sprint
    /\ velocity.x * velocity.x + velocity.z * velocity.z
          = 2 * (MOVE_SPEED * SPRINT_MULTIPLIER) * (MOVE_SPEED * SPRINT_MULTIPLIER)

(***************************************************************************)
(* Claims about registration, checked under SpecRegistry.                  *)
(***************************************************************************)

\* the volume of the mesh's world bounding box, in the units of MIN_VOLUME
WorldVolume(mesh) ==
    LET lo == MinimumWorld(mesh)
        hi == MaximumWorld(mesh)
    IN  ((hi.x - lo.x) \div 200) * ((hi.y - lo.y) \div 200) * ((hi.z - lo.z) \div 200)

\* C7 (as stated): registerCollidable on a mesh with no authored collision config
\* whose world bounding-box volume is below 0.001 or above 10000 leaves the
\* collider set unchanged.
C7_DegenerateBoxIsNoOp ==
    [][(/\ call'.op = "registerCollidable"
        /\ HasBoundingInfo(call'.mesh)
        /\ (IF call'.asset # Null THEN call'.asset ELSE getAssetName(call'.mesh))
               \notin DOMAIN collisionConfig
        /\ \/ WorldVolume(call'.mesh) < MIN_VOLUME
           \/ WorldVolume(call'.mesh) > MAX_VOLUME)
       => collidableMeshes' = collidableMeshes]_vars

\* C25 (as stated): every mesh with an entry in the cylinder table is a member of
\* the collider set, and after clearAll or dispose the cylinder table and the
\* collider set are both empty.
C25_CylindersAreColliders ==
    /\ DOMAIN customCollisions \subseteq collidableMeshes
    /\ call.op \in {"clearAll", "dispose"} =>
          (collidableMeshes = {} /\ DOMAIN customCollisions = {})

(***************************************************************************)
(* Claims about the terrain service, checked under SpecTerrain.            *)
(***************************************************************************)

\* C5 (as stated): a getSpawnPosition call leaves the cache contents (keys,
\* heights and timestamps) exactly as they were.
C5_SpawnLeavesCacheAlone ==
    [][terrainCall'.op = "getSpawnPosition" => heightCache' = heightCache]_vars

\* the step is a getGroundHeight(x, z) call at the point of the remembered call
SecondCallStep ==
    /\ marked # <<>>
    /\ terrainCall'.op = "getGroundHeight"
    /\ terrainCall'.useCache
    /\ terrainCall'.x = marked[1].x
    /\ terrainCall'.z = marked[1].z

ExpiredReadStep ==
    /\ terrainCall'.op = "getGroundHeight"
    /\ terrainCall'.found # <<>>
    /\ now' - terrainCall'.found[1].timestamp >= CACHE_DURATION

ObstaclesBlocked(meshes, initialized, cells) ==
    \A mesh \in meshes :
        ~isWalkable(initialized, cells, NavCoord(AbsolutePosition(mesh).x),
                    NavCoord(AbsolutePosition(mesh).z))

\* the cells on the edge of the grid
BoundaryRing ==
    {c \in GridCells : c[1] \in {0, gridSize - 1} \/ c[2] \in {0, gridSize - 1}}

\* C4 (as stated): after buildNavigationGrid returns, the cell under every
\* registered obstacle is not walkable and every cell of the world-boundary ring
\* is not walkable.
C4_GridReflectsRegistry ==
    [][(navCall'.op = "buildNavigationGrid" /\ UNCHANGED collVars)
       => (/\ ObstaclesBlocked(collidableMeshes', isInitialized', blocked')
           /\ BoundaryRing \subseteq blocked')]_vars

(***************************************************************************)
(* Claims about the path queries, checked under SpecPath.                  *)
(***************************************************************************)

RECURSIVE Flood(_, _, _)
\* the walkable cells that moves between neighbouring walkable cells reach from `frontier`
Flood(cells, frontier, seen) ==
    IF frontier = {} THEN seen
    ELSE LET reached == (UNION {Neighbors(c) : c \in frontier}) \ (seen \cup cells)
         IN  Flood(cells, reached, seen \cup reached)

\* the cell of a world position
CellOf(x, z) == <<worldToGrid(x), worldToGrid(z)>>

OutOfGrid(x, z) == ~(InGrid(worldToGrid(x)) /\ InGrid(worldToGrid(z)))

\* no route of walkable cells joins the cell of the start of the answered findPath to the cell of its goal
NoRoute ==
    \/ CellOf(navCall.x, navCall.z) \in blocked
    \/ CellOf(navCall.goal.x, navCall.goal.z) \in blocked
    \/ CellOf(navCall.goal.x, navCall.goal.z)
          \notin Flood(blocked, {CellOf(navCall.x, navCall.z)}, {CellOf(navCall.x, navCall.z)})

\* no point within the radius of the centre of the answered getRandomWalkablePosition is walkable
NoSample ==
    \A dx \in (0 - navCall.radius) .. navCall.radius, dz \in (0 - navCall.radius) .. navCall.radius :
        dx * dx + dz * dz <= navCall.radius * navCall.radius
            => ~is_walkable(blocked, navCall.x + dx, navCall.z + dz)

AngleDistance(a, b) ==
    LET d == (a - b) % (2 * PI)
    IN  IF d > PI THEN 2 * PI - d ELSE d

\* the step is an update with no button held and the character neither moving nor rotating
IdleUpdateStep ==
    /\ cameraCall'.op = "update"
    /\ ~cameraCall'.moving /\ ~cameraCall'.rotating
    /\ ~isRightMouseDown /\ ~isLeftMouseDown

\* camera.alpha is within 0.1 rad of -rotation.y - PI/2 of the locked character
BehindCharacter ==
    AngleDistance(camAlpha, 0 - lockedTarget[1] - PI \div 2) < 1000

C19_RealignsAfterDrag ==
    (lockedTarget # <<>> /\ realign.afterDrag /\ realign.updates = 120)
        => AngleDistance(camAlpha, lockedTarget[1] + PI \div 2) < 1000

\* C20: while the left or the right button is held, update leaves camera.alpha
\* as it is, whatever the character's rotation and the moving and rotating flags.
C20_NoRealignWhileHeld ==
    [][(cameraCall'.op = "update" /\ (isRightMouseDown \/ isLeftMouseDown))
          => camAlpha' = camAlpha]_vars

\* update has run with a button held, the rotating flag set and the camera
\* away from its place behind the character
C20_Witness ==
    /\ cameraCall.op = "update"
    /\ cameraCall.rotating
    /\ isRightMouseDown \/ isLeftMouseDown
    /\ lockedTarget # <<>>
    /\ AngleDistance(camAlpha, 0 - lockedTarget[1] - PI \div 2) > PI \div 2

(***************************************************************************)
(* Claims about the NPC's AI, checked under SpecNPC.                        *)
(***************************************************************************)

\* the NPC the last step was about, before and after the step
Updated(data) == data[npcCall'.id]

\* the state NPC.update leaves a living NPC in, given its distance to the player
StateFor(distance, state) ==
    /\ state = "Attacking" <=> distance <= attackRange
    /\ state = "Chasing" <=> (distance > attackRange /\ distance <= detectionRange)
    /\ distance > detectionRange => state \in {"Idle", "Wandering"}

\* what NPC.update does to an NPC whose health is zero or below
DeadStaysPut ==
    /\ Updated(npcData').state = "Idle"
    /\ Updated(npcData').x = Updated(npcData).x
    /\ npcCall'.attacked = {}

\* C23 (as stated): after NPC.update on a living NPC its state is Attacking iff
\* the distance it now has to the player is at most attackRange, Chasing iff
\* that distance is above attackRange and at most detectionRange, and Idle or
\* Wandering otherwise; an NPC with health zero or below is Idle, does not
\* move and reports no attack.
C23_StateMatchesDistance_Original ==
    [][npcCall'.op = "update" =>
          IF Updated(npcData).health > 0
          THEN StateFor(Abs(Updated(npcData').x - npcCall'.playerPosition),
                        Updated(npcData').state)
          ELSE DeadStaysPut]_vars

\* C23 (amended): the same, with the distance the NPC had to the player when
\* the update began, before the update moved it.
C23_StateMatchesDistance ==
    [][npcCall'.op = "update" =>
          IF Updated(npcData).health > 0
          THEN StateFor(Abs(Updated(npcData).x - npcCall'.playerPosition),
                        Updated(npcData').state)
          ELSE DeadStaysPut]_vars

\* a chasing NPC that its own step has carried into attack range
C23_Witness ==
    /\ npcCall.op = "update"
    /\ npcData[npcCall.id].health > 0
    /\ npcData[npcCall.id].state = "Chasing"
    /\ Abs(npcData[npcCall.id].x - npcCall.playerPosition) <= attackRange

\* C26: two attacks reported by one NPC are at least attackCooldown apart, and
\* an update reports an attack only for a living NPC with the player within
\* attackRange.
C26_AttacksSpacedAndInRange ==
    /\ [](\A id \in DOMAIN attackLog :
              Len(attackLog[id]) = 2 => attackLog[id][2] - attackLog[id][1] >= attackCooldown)
    /\ [][(npcCall'.op = "update" /\ npcCall'.attacked # {}) =>
              (/\ Updated(npcData).health > 0
               /\ Abs(Updated(npcData).x - npcCall'.playerPosition) <= attackRange)]_vars

\* an NPC has reported a second attack as soon as the cooldown allowed
C26_Witness ==
    \E id \in DOMAIN attackLog :
        /\ Len(attackLog[id]) = 2
        /\ attackLog[id][2] - attackLog[id][1] = attackCooldown

\* C27 (as stated): an NPC starts following a new wander path only when at
\* least wanderCooldownTime has passed since it stopped following its previous
\* one, whether that path was completed or abandoned for the player.
C27_WanderCooldown ==
    [][\A id \in DOMAIN npcData :
          (/\ id \in DOMAIN npcData'
           /\ npcData[id].wanderPath = <<>>
           /\ npcData'[id].wanderPath # <<>>
           /\ wanderLog[id] # <<>>)
              => dateNow' - wanderLog[id][1] >= wanderCooldownTime]_vars

(***************************************************************************)
(* Claims about the manager, targeting and the melee attack, checked under  *)
(* SpecCombat.                                                              *)
(***************************************************************************)

\* C22 (as stated): between calls getNPCCount() is the number of managed NPCs
\* whose health is above zero, also right after a kill and before the next
\* NPCManager.update.
C22_CountIsLivingCount ==
    getNPCCount(npcs) = Cardinality({i \in 1..Len(npcs) : npcData[npcs[i]].health > 0})

\* the x component of the direction a player turned to `rotation` faces
FacingX(rotation) ==
    CASE rotation = PI \div 2 -> 1
      [] rotation = 3 * (PI \div 2) -> -1
      [] OTHER -> 0

\* C28: a melee attack changes the health of an NPC only if, when the ability
\* is used, that NPC is the current target and alive, within the player's
\* attack range, not behind the player, and no earlier attack is in progress;
\* otherwise the health of every NPC stays as it was.
C28_MeleeHitsOnlyValidTarget ==
    [][npcCall'.op = "performMeleeAttack" =>
          \A id \in DOMAIN npcData :
              npcData'[id].health # npcData[id].health =>
                  (/\ currentTarget = <<id>>
                   /\ npcData[id].health > 0
                   /\ Abs(npcData[id].x - npcCall'.playerPosition) <= playerAttackRange
                   /\ FacingX(npcCall'.playerRotation)
                          * (npcData[id].x - npcCall'.playerPosition) >= 0
                   /\ ~isAttacking
                   /\ npcData'[id].health = npcData[id].health - playerAttackDamage)]_vars

\* a melee attack has just hit its target
C28_Witness ==
    /\ npcCall.op = "performMeleeAttack"
    /\ npcCall.result # <<>>
    /\ npcData[npcCall.result[1]].health < maxHealth
    /\ isAttacking

\* C29 (as stated): every cycleTarget call returns a member of the list it is
\* given, and n calls in a row on the same n >= 1 living NPCs select every one
\* of them at least once, wherever the NPCs and the player stand at each call.
C29_FairCycle ==
    cycleLog.list # {} =>
        /\ \A i \in 1..Len(cycleLog.picks) : cycleLog.picks[i] \in cycleLog.list
        /\ Len(cycleLog.picks) = Cardinality(cycleLog.list) =>
               {cycleLog.picks[i] : i \in 1..Len(cycleLog.picks)} = cycleLog.list

====
